---- MODULE Spec2Model ----
(***************************************************************************)
(* Model of the DDP cluster driver of RNS-E-Hudiy:                         *)
(*   - the DDP engine, src/dis_client/ddp_protocol.py (class DDPProtocol), *)
(*   - the presentation service, src/dis_client/dis_service.py             *)
(*     (class DisService).                                                 *)
(*                                                                         *)
(* The driver is one thread.  It suspends only where it reads the CAN bus  *)
(* (_recv).  The model keeps the thread's pending work as a stack of       *)
(* instructions, todo: the head is the statement being executed, the rest  *)
(* the continuation of the callers.  An action runs the thread from one    *)
(* bus read to the next (Exec); the frame a read returns, the clock, the   *)
(* UI queue and the health of the CAN adapter are the environment.         *)
(*                                                                         *)
(* Bytes are written in decimal; the hexadecimal value of the source is    *)
(* given in the comment next to it.                                        *)
(***************************************************************************)
EXTENDS Integers, Sequences, FiniteSets, TLC

\* ------------------------------------------------------------ bounds
\* The clock runs from 0 to MaxNow seconds.
MaxNow == 3
\* The UI queue holds at most MaxQueue commands that were not yet taken.
MaxQueue == 1
\* The UI submits at most MaxCmds commands in one run.
MaxCmds == 2
\* A UI that submits in bursts has at most MaxBurst commands waiting.
MaxBurst == 2

\* ------------------------------------------------------------ constants
CAN_ID_SEND == 1728                      \* 0x6C0
CAN_ID_SOURCE == 1633                    \* 0x661
PKT_TYPE_DATA_END == 16                  \* 0x10
PKT_TYPE_DATA_BODY == 32                 \* 0x20
PKT_TYPE_ACK == 176                      \* 0xB0
MAX_BYTES_PER_BLOCK == 42
KA_INTERVAL == 2                         \* seconds between keep-alives

KA_WHITE_OPEN == <<160, 15, 138, 255, 74, 255>>     \* A0 0F 8A FF 4A FF
KA_WHITE_ACCEPT == <<161, 15, 138, 255, 74, 255>>   \* A1 0F 8A FF 4A FF
KA_KEEP_PING == <<163>>                              \* A3
KA_CLOSE == <<168>>                                  \* A8
KA_RED_PRESENT == <<160, 7, 0>>                      \* A0 07 00
KA_RED_OPEN == <<161, 15>>                           \* A1 0F
KA_RED_ACCEPT == <<161, 15>>                         \* A1 0F

STAT_BUSY_HALF == <<83, 132>>            \* 53 84
STAT_BUSY_WARN_HALF == <<83, 4>>         \* 53 04
STAT_BUSY_FULL == <<83, 136>>            \* 53 88
STAT_BUSY_WARN_FULL == <<83, 8>>         \* 53 08
STAT_FREE_HALF == <<83, 5>>              \* 53 05
STAT_FREE_FULL == <<83, 10>>             \* 53 0A
CMD_REINIT_REQ == <<46>>                 \* 2E
CMD_REINIT_CONF == <<47>>                \* 2F

\* The "no frame" result of a bus read and of a wait (Python's None).
None == <<>>
\* The deadline of a wait loop passing.
TIMEOUT == <<-1>>

\* ------------------------------------------------------------ UI commands
\* A UI command record carries every field _execute_command reads with
\* cmd.get; a field the UI left out holds the default cmd.get gives it.
NoCmd ==
    [command |-> "none", x |-> 0, y |-> 0, text |-> <<>>, flags |-> 6,
     icon_name |-> "", w |-> 10, h |-> 10, color |-> 4, length |-> 0,
     vertical |-> TRUE]

DrawText(text, x, y, flags) ==
    [NoCmd EXCEPT !.command = "draw_text", !.text = text, !.x = x, !.y = y,
                  !.flags = flags]

Simple(c) == [NoCmd EXCEPT !.command = c]

\* Characters are code points: 65 = "A", 66 = "B", 67 = "C".
TextLong == DrawText(<<65, 66, 67>>, 0, 1, 6)

\* The commands the UI submits in the model.
CmdSet == {Simple("clear"), Simple("commit"), TextLong}

\* A second text on the line of TextLong, and a bitmap whose icon_name is
\* not a key of BITMAPS.
TextAside == DrawText(<<66>>, 1, 1, 6)
\* An inverted text (flags & 0x80) on the same line.
TextInverted == DrawText(<<65>>, 0, 1, 134)
NoIcon == [NoCmd EXCEPT !.command = "draw_bitmap", !.icon_name = "nope"]

\* The commands of the UI that submits in bursts.
CmdSetUI == {Simple("clear"), TextLong, TextAside, TextInverted, NoIcon}

\* ------------------------------------------------------------ instructions
\* A statement of the thread: op names it; d, k, c and t are its arguments
\* (bytes, a number, a UI command, a tag).
NoArg == <<>>
Instr(op, d, k, c, t) == [op |-> op, d |-> d, k |-> k, c |-> c, t |-> t]
I(op) == Instr(op, <<>>, 0, NoArg, "")
ID(op, d) == Instr(op, d, 0, NoArg, "")
IC(op, c, k) == Instr(op, <<>>, k, c, "")
\* send_data_packet(d, is_multi_packet_frame_body = (k = 1)), sent for t
ISend(d, k, t) == Instr("SEND", d, k, NoArg, t)

\* The statements at which the thread is suspended in a bus read.
Blocking == {"SPEC", "DATA", "DETECT"}

VARIABLES
    \* DDPProtocol
    state, dis_mode, i_am_opener, send_seq_num, last_ka_sent,
    \* DisService
    screen_is_active, command_cache, line_cache, queue,
    \* the thread: continuation, last received frame, last return value
    todo, data, rv,
    \* environment: clock, CAN adapter health, the process has ended
    now, busOk, halted, ui_left,
    \* observation: frames put on the bus by the last step
    wire,
    \* observation: sequence nibble of the session's last data frame, or -1
    lastData,
    \* observation of the last step: an ACK wait ended without its ACK
    unacked,
    \* observation of the last step: the calls of send_ddp_frame made while
    \* the engine was not READY
    flog,
    \* observation of the last step: the UI commands taken from the queue
    \* while the engine was PAUSED, and what was done with each
    ulog,
    \* observation of the last step: the status payload poll_bus_events read
    pollrec,
    \* observation of the last step: the keep-alive step
    karec,
    \* observation: command_cache when the engine entered PAUSED, kept until
    \* the replay that follows the resumption starts
    pausedCache,
    \* observation: a replay of command_cache is owed since PAUSED -> READY
    owed,
    \* observation: the restore_screen of this iteration of run()
    rplay,
    \* observation of the last step: the data frame read from the bus for
    \* which the driver, its adapter working, did not send just the ACK due
    rxrec,
    \* observation: the payloads perform_initialization has been given so far
    initrx,
    \* observation of the last step: how perform_initialization ended
    initrec,
    \* observation of the last step: a screen claim met an answer it does not
    \* expect, or none
    clrec,
    \* observation of the last step: the adapter refused a frame
    canfail,
    \* observation: the numbers the UI gave to the commands in queue (0: none)
    qn,
    \* observation: the number of the command the drain loop took last in
    \* this iteration of run()
    cur,
    \* observation: the number of the command for which the last draw frame
    \* was handed to the bus
    lastDrawn,
    \* observation: the last call of _execute_command for a numbered command,
    \* kept while the engine stays READY and until a replay
    lastExec,
    \* observation of the last step: the calls of _execute_command that
    \* returned, each with the call made before it
    execrec,
    \* observation of the last step: the drain loop of the READY branch took
    \* more commands than were waiting when it began
    drainrec,
    \* observation of the last step: the session-control frame or the stale
    \* ACK that the step read, and the state of the engine that read it
    rxctl,
    \* observation of the last step: the automatic release gave the screen
    \* back, after so many seconds without a draw
    relrec,
    \* observation: the draw commands the drain loop of the READY branch took
    \* from the queue and discarded in this step, each with the state of the
    \* engine when it was taken
    droprec,
    \* observation: the changes of state _set_state made in this step, each
    \* as <<old, new>>
    trans,
    \* DisService.ENABLE_AUTO_RELEASE, set at construction
    ENABLE_AUTO_RELEASE,
    \* DisService.last_draw_time, in seconds of the clock now
    last_draw_time,
    \* observation: the frames sent by the open of a session in progress and
    \* the replies its waits were given, in order; kept until the next
    \* iteration of run() begins
    openlog,
    \* observation of one call of send_ddp_frame: its payload, the frames it
    \* sent and the answers its waits were given, in order, and its result
    framelog

vars ==
    <<state, dis_mode, i_am_opener, send_seq_num, last_ka_sent,
      screen_is_active, command_cache, line_cache, queue, todo, data, rv,
      now, busOk, halted, ui_left, wire, lastData, unacked, flog, ulog,
      pollrec, karec, pausedCache, owed, rplay, rxrec, initrx, initrec, clrec,
      canfail, qn, cur, lastDrawn, lastExec, execrec, drainrec, rxctl,
      relrec, droprec, trans, ENABLE_AUTO_RELEASE, last_draw_time, openlog, framelog>>

\* The replay is no longer owed once the screen was marked active without it.
Lapsed == owed /\ screen_is_active /\ rplay = <<>>

\* The machine as one record: the operators below map machine to machine.
Mach ==
    [state |-> state, dis_mode |-> dis_mode, i_am_opener |-> i_am_opener,
     send_seq_num |-> send_seq_num, last_ka_sent |-> last_ka_sent,
     screen_is_active |-> screen_is_active, command_cache |-> command_cache,
     line_cache |-> line_cache, queue |-> queue, todo |-> todo,
     data |-> data, rv |-> rv, now |-> now, busOk |-> busOk,
     wire |-> <<>>, lastData |-> lastData, unacked |-> FALSE, flog |-> <<>>,
     ulog |-> <<>>, pollrec |-> <<>>, karec |-> <<>>,
     pausedCache |-> IF Lapsed THEN <<>> ELSE pausedCache,
     owed |-> owed /\ ~Lapsed, rplay |-> rplay,
     rxrec |-> <<>>, initrx |-> initrx, initrec |-> <<>>, clrec |-> <<>>,
     canfail |-> FALSE, qn |-> qn, cur |-> cur, lastDrawn |-> lastDrawn,
     lastExec |-> lastExec, execrec |-> <<>>, drainrec |-> <<>>,
     rxctl |-> <<>>, relrec |-> <<>>, droprec |-> <<>>,
     trans |-> {}, framelog |-> framelog,
     openlog |-> openlog,
     ENABLE_AUTO_RELEASE |-> ENABLE_AUTO_RELEASE,
     last_draw_time |-> last_draw_time,
     exc |-> "", bg |-> FALSE, acks |-> <<>>, pongs |-> <<>>, clbad |-> FALSE]

Install(m) ==
    /\ state' = m.state
    /\ dis_mode' = m.dis_mode
    /\ i_am_opener' = m.i_am_opener
    /\ send_seq_num' = m.send_seq_num
    /\ last_ka_sent' = m.last_ka_sent
    /\ screen_is_active' = m.screen_is_active
    /\ command_cache' = m.command_cache
    /\ line_cache' = m.line_cache
    /\ queue' = m.queue
    /\ todo' = m.todo
    /\ data' = m.data
    /\ rv' = m.rv
    /\ wire' = m.wire
    /\ lastData' = m.lastData
    /\ unacked' = m.unacked
    /\ flog' = m.flog
    /\ ulog' = m.ulog
    /\ pollrec' = m.pollrec
    /\ karec' = m.karec
    /\ pausedCache' = m.pausedCache
    /\ owed' = m.owed
    /\ rplay' = m.rplay
    /\ rxrec' = m.rxrec
    /\ initrx' = m.initrx
    /\ initrec' = m.initrec
    /\ clrec' = m.clrec
    /\ canfail' = m.canfail
    /\ qn' = m.qn
    /\ cur' = m.cur
    /\ lastDrawn' = m.lastDrawn
    /\ lastExec' = m.lastExec
    /\ execrec' = m.execrec
    /\ drainrec' = m.drainrec
    /\ rxctl' = m.rxctl
    /\ framelog' = m.framelog
    /\ openlog' = m.openlog
    /\ relrec' = m.relrec
    /\ trans' = m.trans
    /\ droprec' = m.droprec
    /\ ENABLE_AUTO_RELEASE' = m.ENABLE_AUTO_RELEASE
    /\ last_draw_time' = m.last_draw_time

Push(m, instrs) == [m EXCEPT !.todo = instrs \o @]
Pop(m) == [m EXCEPT !.todo = Tail(@)]
Raise(m, e) == [m EXCEPT !.exc = e]

\* ------------------------------------------------------------ byte helpers
TypeOf(f) == (f[1] \div 16) * 16         \* data[0] & PKT_TYPE_MASK
SeqOf(f) == f[1] % 16                    \* data[0] & PKT_SEQ_MASK
IsDataFrame(f) == Len(f) >= 1 /\ TypeOf(f) \in {PKT_TYPE_DATA_END, PKT_TYPE_DATA_BODY}

\* ------------------------------------------------------------ DDPProtocol
\* A transition that leaves the sequence counter as it was.
_set_state_keeps_seq(m, new_state) ==
    IF m.state = new_state THEN m
    ELSE IF new_state = "DISCONNECTED"
    THEN [m EXCEPT !.state = new_state, !.dis_mode = "UNKNOWN",
                   !.i_am_opener = FALSE,
                   !.trans = @ \cup {<<m.state, new_state>>}]
    ELSE [m EXCEPT !.state = new_state,
                   !.trans = @ \cup {<<m.state, new_state>>}]

_set_state(m, new_state) ==
    IF m.state = new_state THEN m
    ELSE IF new_state = "DISCONNECTED"
    THEN [m EXCEPT !.state = new_state, !.dis_mode = "UNKNOWN",
                   !.i_am_opener = FALSE, !.send_seq_num = 0,
                   !.lastData = -1,
                   !.trans = @ \cup {<<m.state, new_state>>}]
    ELSE [m EXCEPT !.state = new_state,
                   !.trans = @ \cup {<<m.state, new_state>>}]

payload_is(d, expected_payload) ==
    IF Len(d) < 1 THEN FALSE ELSE Tail(d) = expected_payload

\* send_can: a frame is put on the bus, or the adapter raises DDPCANError.
\* t names the operation the frame is sent for.  wire keeps the frames the
\* driver originates, not its replies (ACK and A1).
send_can(m, can_id, d, t) ==
    IF ~m.busOk THEN Raise([m EXCEPT !.canfail = TRUE], "DDPCANError")
    ELSE LET isData == can_id = CAN_ID_SEND /\ IsDataFrame(d) IN
         [m EXCEPT !.wire = IF t \in {"ack", "pong"} THEN @
                             ELSE Append(@, [id |-> can_id, f |-> d,
                                             st |-> m.state, t |-> t,
                                             prev |-> m.lastData,
                                             c |-> m.cur,
                                             prevc |-> m.lastDrawn]),
                   !.acks = IF t = "ack" THEN Append(@, d) ELSE @,
                   !.openlog = IF t = "open" THEN Append(@, <<"tx", d>>) ELSE @,
                   !.pongs = IF t = "pong"
                             THEN Append(@, [id |-> can_id, f |-> d,
                                             after |-> Len(m.wire) + Len(m.acks)])
                             ELSE @,
                   !.lastDrawn = IF t = "draw" /\ m.cur > 0 THEN m.cur ELSE @,
                   !.lastData = IF isData THEN SeqOf(d) ELSE @]

send_ack(m, received_seq_num) ==
    send_can(m, CAN_ID_SEND, <<PKT_TYPE_ACK + ((received_seq_num + 1) % 16)>>, "ack")

\* An answer that is the long A1 in every session.
ping_reply_long(mode) == KA_WHITE_ACCEPT

\* reply = KA_RED_ACCEPT if dis_mode == RED else KA_WHITE_ACCEPT
ping_reply(mode) == IF mode = "RED" THEN KA_RED_ACCEPT ELSE KA_WHITE_ACCEPT

\* _handle_incoming_packet: the result is the machine; its field bg is the
\* value returned (True: handled, False: a data packet for the caller).
_handle_incoming_packet(m, d) ==
    IF d = None THEN [m EXCEPT !.bg = FALSE]
    ELSE IF TypeOf(d) = 160 THEN
        IF d = KA_CLOSE
        THEN [_set_state(m, "DISCONNECTED") EXCEPT !.bg = TRUE]
        ELSE IF d = KA_RED_PRESENT /\ m.dis_mode = "RED" /\ m.state = "READY"
        THEN [_set_state(m, "DISCONNECTED") EXCEPT !.bg = TRUE]
        ELSE IF d[1] = KA_KEEP_PING[1]
        THEN [send_can(m, CAN_ID_SEND, ping_reply(m.dis_mode), "pong")
              EXCEPT !.bg = TRUE]
        ELSE [m EXCEPT !.bg = TRUE]
    \* an ACK is stored in _last_received_ack, which nothing reads
    ELSE IF TypeOf(d) = PKT_TYPE_ACK THEN [m EXCEPT !.bg = TRUE]
    ELSE IF TypeOf(d) \in {0, PKT_TYPE_DATA_END, PKT_TYPE_DATA_BODY}
    THEN [m EXCEPT !.bg = FALSE]
    ELSE [m EXCEPT !.bg = TRUE]

\* send_data_packet up to its wait: the packet is sent and the sequence number
\* advanced; an end packet then waits for its ACK (SPEC) and raises
\* DDPAckTimeoutError when the wait gave nothing (ACKCHK).
send_data_packet(m, ins) ==
    LET packet_type == IF ins.k = 1 THEN PKT_TYPE_DATA_BODY ELSE PKT_TYPE_DATA_END
        packet == <<packet_type + m.send_seq_num>> \o ins.d
        expected_ack_byte == PKT_TYPE_ACK + ((m.send_seq_num + 1) % 16)
        m1 == send_can(m, CAN_ID_SEND, packet, ins.t)
        m2 == [m1 EXCEPT !.send_seq_num = (@ + 1) % 16]
    IN  IF m1.exc # "" THEN m1
        ELSE IF ins.k = 1 THEN Pop(m2)
        ELSE Push(Pop(m2), <<ID("SPEC", <<expected_ack_byte>>), I("ACKCHK")>>)

\* A wait whose result is not looked at.
AckCheck_lenient(m) == Pop(m)

AckCheck(m) ==
    IF m.data = None THEN Raise([m EXCEPT !.unacked = TRUE], "DDPAckTimeoutError")
    ELSE Pop(m)

\* A wait that goes on after the engine was set DISCONNECTED.
_recv_specific_goes_on(m, f) ==
    IF f = TIMEOUT THEN Pop([m EXCEPT !.data = None])
    ELSE IF f = Head(m.todo).d THEN Pop([m EXCEPT !.data = f])
    ELSE _handle_incoming_packet(m, f)

\* One round of the loop of _recv_specific: f is what _recv returned, or
\* TIMEOUT when the deadline passed.  The wait ends with data set to the
\* frame or to None.
_recv_specific(m, f) ==
    LET expected_data == Head(m.todo).d IN
    IF f = TIMEOUT THEN Pop([m EXCEPT !.data = None])
    ELSE IF f = expected_data THEN Pop([m EXCEPT !.data = f])
    ELSE LET m1 == _handle_incoming_packet(m, f) IN
         IF m1.exc # "" THEN m1
         ELSE IF m1.state = "DISCONNECTED" THEN Pop([m1 EXCEPT !.data = None])
         ELSE m1

\* One round of the loop of _recv_and_ack_data.
_recv_and_ack_data(m, f) ==
    IF f = TIMEOUT THEN Pop([m EXCEPT !.data = None])
    ELSE LET m1 == _handle_incoming_packet(m, f) IN
         IF m1.exc # "" THEN m1
         ELSE IF m1.state = "DISCONNECTED" THEN Pop([m1 EXCEPT !.data = None])
         ELSE IF m1.bg THEN m1
         ELSE IF TypeOf(f) \in {0, PKT_TYPE_DATA_END}
         THEN LET m2 == send_ack(m1, SeqOf(f)) IN
              IF m2.exc # "" THEN m2 ELSE Pop([m2 EXCEPT !.data = f])
         ELSE Pop([m1 EXCEPT !.data = f])

\* payload[i:i+n] for i in range(0, len(payload), n)
RECURSIVE SplitEvery(_, _)
SplitEvery(s, n) ==
    IF s = <<>> THEN <<>>
    ELSE IF Len(s) <= n THEN <<s>>
    ELSE <<SubSeq(s, 1, n)>> \o SplitEvery(SubSeq(s, n + 1, Len(s)), n)

\* Blocks cut into segments of six bytes.
BlockInstrs_sixes(block, t) ==
    LET chunks == SplitEvery(block, 6) IN
    [i \in 1..Len(chunks) |-> ISend(chunks[i], IF i < Len(chunks) THEN 1 ELSE 0, t)]

\* Blocks whose every segment is sent as an end packet.
BlockInstrs_all_end(block, t) ==
    LET chunks == SplitEvery(block, 7) IN
    [i \in 1..Len(chunks) |-> ISend(chunks[i], 0, t)]

\* The packets of one block: body packets, then the end packet.
BlockInstrs(block, t) ==
    LET chunks == SplitEvery(block, 7) IN
    [i \in 1..Len(chunks) |-> ISend(chunks[i], IF i < Len(chunks) THEN 1 ELSE 0, t)]

RECURSIVE Flatten(_)
Flatten(ss) == IF ss = <<>> THEN <<>> ELSE Head(ss) \o Flatten(Tail(ss))

\* send_ddp_frame without its state check
send_ddp_frame_unguarded(m, ins) ==
    IF ins.d = <<>> THEN Pop([m EXCEPT !.rv = TRUE])
    ELSE LET payload_blocks == SplitEvery(ins.d, MAX_BYTES_PER_BLOCK) IN
         Push(Pop(m),
              Flatten([i \in 1..Len(payload_blocks) |->
                          BlockInstrs(payload_blocks[i], ins.t)])
              \o <<ID("END_FRAME", ins.d)>>)

\* send_ddp_frame: refused unless READY; else the blocks are sent in order
\* inside the try whose handler is END_FRAME.
send_ddp_frame(m, ins) ==
    IF m.state # "READY" THEN Pop([m EXCEPT !.rv = FALSE])
    ELSE IF ins.d = <<>> THEN Pop([m EXCEPT !.rv = TRUE])
    ELSE LET payload_blocks == SplitEvery(ins.d, MAX_BYTES_PER_BLOCK) IN
         Push(Pop(m),
              Flatten([i \in 1..Len(payload_blocks) |->
                          BlockInstrs(payload_blocks[i], ins.t)])
              \o <<ID("END_FRAME", ins.d)>>)

\* release_screen
release_screen(m) ==
    IF m.state # "READY" THEN Pop([m EXCEPT !.rv = FALSE])
    ELSE Push(Pop(m), <<ISend(<<51>>, 0, "release"), I("END_RELEASE")>>)

\* send_keepalive_if_needed sending as soon as the interval has elapsed
send_keepalive_at_interval(m) ==
    IF m.state \notin {"READY", "PAUSED"} THEN m
    ELSE IF m.i_am_opener /\ m.now - m.last_ka_sent >= KA_INTERVAL
    THEN LET m1 == send_can(m, CAN_ID_SEND, KA_KEEP_PING, "ka") IN
         IF m1.exc # "" THEN m1 ELSE [m1 EXCEPT !.last_ka_sent = m.now]
    ELSE m

\* send_keepalive_if_needed
send_keepalive_if_needed(m) ==
    IF m.state \notin {"READY", "PAUSED"} THEN m
    ELSE IF m.i_am_opener /\ m.now - m.last_ka_sent > KA_INTERVAL
    THEN LET m1 == send_can(m, CAN_ID_SEND, KA_KEEP_PING, "ka") IN
         IF m1.exc # "" THEN m1 ELSE [m1 EXCEPT !.last_ka_sent = m.now]
    ELSE m

BusyStatus ==
    {STAT_BUSY_WARN_HALF, STAT_BUSY_HALF, STAT_BUSY_WARN_FULL, STAT_BUSY_FULL}
FreeStatus == {STAT_FREE_HALF, STAT_FREE_FULL}

\* poll_bus_events with a switch for each of two changes: keeps_seq leaves
\* send_seq_num as it is after the 2F frame, free_resumes takes a free status
\* for the end of the pause
poll_bus_events_changed(m, f, keeps_seq, free_resumes) ==
    IF m.state = "DISCONNECTED" THEN m
    ELSE IF f = None THEN m
    ELSE LET m1 == _handle_incoming_packet(m, f) IN
         IF m1.exc # "" \/ m1.bg THEN m1
         ELSE LET payload == Tail(f)
                  m2 == IF TypeOf(f) \in {0, PKT_TYPE_DATA_END}
                        THEN send_ack(m1, SeqOf(f)) ELSE m1
              IN  IF m2.exc # "" THEN m2
                  ELSE IF payload \in BusyStatus THEN
                      IF m2.state # "PAUSED"
                      THEN send_can(_set_state(m2, "PAUSED"), CAN_ID_SEND,
                                    KA_KEEP_PING, "urgent")
                      ELSE m2
                  ELSE IF payload \in FreeStatus
                  THEN IF free_resumes THEN _set_state(m2, "READY") ELSE m2
                  ELSE IF payload = CMD_REINIT_REQ THEN
                      LET pkt == <<PKT_TYPE_DATA_END + m2.send_seq_num>>
                                     \o CMD_REINIT_CONF
                          m3 == send_can(m2, CAN_ID_SEND, pkt, "reinit")
                      IN  IF m3.exc # "" THEN m3
                          ELSE _set_state(
                                   [m3 EXCEPT !.send_seq_num =
                                       IF keeps_seq THEN @ ELSE (@ + 1) % 16],
                                   "READY")
                  ELSE m2

poll_bus_events_keeps_seq(m, f) == poll_bus_events_changed(m, f, TRUE, FALSE)

poll_bus_events_free_resumes(m, f) == poll_bus_events_changed(m, f, FALSE, TRUE)

\* A poll_bus_events that goes on to SESSION_ACTIVE after its 2F.
poll_bus_events_reopens(m, f) ==
    LET r == poll_bus_events_changed(m, f, FALSE, FALSE) IN
    IF m.state # "DISCONNECTED" /\ f # None /\ r.exc = "" /\ ~r.bg
       /\ Tail(f) = CMD_REINIT_REQ
    THEN _set_state(r, "SESSION_ACTIVE")
    ELSE r

\* poll_bus_events: f is the result of the non-blocking _recv(0).
poll_bus_events(m, f) ==
    IF m.state = "DISCONNECTED" THEN m
    ELSE IF f = None THEN m
    ELSE LET m1 == _handle_incoming_packet(m, f) IN
         IF m1.exc # "" \/ m1.bg THEN m1
         ELSE LET payload == Tail(f)
                  m2 == IF TypeOf(f) \in {0, PKT_TYPE_DATA_END}
                        THEN send_ack(m1, SeqOf(f)) ELSE m1
              IN  IF m2.exc # "" THEN m2
                  ELSE IF payload \in BusyStatus THEN
                      IF m2.state # "PAUSED"
                      THEN send_can(_set_state(m2, "PAUSED"), CAN_ID_SEND,
                                    KA_KEEP_PING, "urgent")
                      ELSE m2
                  ELSE IF payload \in FreeStatus THEN m2
                  ELSE IF payload = CMD_REINIT_REQ THEN
                      LET pkt == <<PKT_TYPE_DATA_END + m2.send_seq_num>>
                                     \o CMD_REINIT_CONF
                          m3 == send_can(m2, CAN_ID_SEND, pkt, "reinit")
                      IN  IF m3.exc # "" THEN m3
                          ELSE _set_state(
                                   [m3 EXCEPT !.send_seq_num = (@ + 1) % 16],
                                   "READY")
                  ELSE m2

\* ---- opening a session
ICan(d, t) == Instr("CAN", d, 0, NoArg, t)

\* An open that is content with the first A1 0F.
RedOpenInstrs_once ==
    <<ICan(KA_RED_OPEN, "open"), ICan(KA_KEEP_PING, "open"),
      ID("SPEC", KA_RED_ACCEPT), I("RED_CHK"), I("RED_DONE"), I("END_RED")>>

\* _red_dis_open: the statements of its try block; END_RED is its handler.
RedOpenInstrs ==
    <<ICan(KA_RED_OPEN, "open"), ICan(KA_KEEP_PING, "open"),
      ID("SPEC", KA_RED_ACCEPT), I("RED_CHK")>>
    \o Flatten([i \in 1..4 |->
                  <<ICan(KA_KEEP_PING, "open"), ID("SPEC", KA_RED_ACCEPT),
                    I("RED_CHK")>>])
    \o <<I("RED_DONE"), I("END_RED")>>

\* openlog: the wait of _red_dis_open was given m.data
RedHeard(m) == [m EXCEPT !.openlog = Append(@, <<"rx", m.data>>)]

RedCheck(m) ==
    IF m.data = None THEN Raise(m, "DDPHandshakeError") ELSE Pop(RedHeard(m))

\* the end of the try block of _red_dis_open
RedDone(m) ==
    LET m1 == _set_state([m EXCEPT !.i_am_opener = TRUE], "SESSION_ACTIVE") IN
    Pop([m1 EXCEPT !.dis_mode = "RED", !.rv = TRUE])

\* _white_dis_active_open, after its wait for A1
_white_dis_active_open(m) ==
    IF m.data # None
    THEN LET m1 == _set_state([m EXCEPT !.i_am_opener = TRUE], "SESSION_ACTIVE") IN
         Pop([m1 EXCEPT !.dis_mode = "WHITE", !.rv = TRUE])
    ELSE Pop([m EXCEPT !.rv = FALSE])

\* detect_and_open_session, up to its listening loop
detect_and_open_session(m) ==
    IF m.state # "DISCONNECTED" THEN Pop([m EXCEPT !.rv = TRUE])
    ELSE Push(Pop(m), <<I("DETECT")>>)

\* One round of the listening loop of detect_and_open_session: f is what
\* _recv returned, or TIMEOUT when the 1.5 s passed without a broadcast.
DetectStep(m, f) ==
    IF f = TIMEOUT
    THEN LET m1 == send_can(m, CAN_ID_SEND, KA_WHITE_OPEN, "open") IN
         IF m1.exc # "" THEN m1
         ELSE Push(Pop(m1), <<ID("SPEC", KA_WHITE_ACCEPT), I("WHITE_OPENED")>>)
    ELSE IF f = KA_RED_PRESENT THEN Push(Pop(m), RedOpenInstrs)
    ELSE IF f = KA_WHITE_OPEN
    THEN LET m1 == send_can(m, CAN_ID_SEND, KA_WHITE_ACCEPT, "open") IN
         IF m1.exc # "" THEN m1
         ELSE LET m2 == _set_state([m1 EXCEPT !.i_am_opener = FALSE],
                                   "SESSION_ACTIVE")
              IN  Pop([m2 EXCEPT !.dis_mode = "WHITE", !.rv = TRUE])
    ELSE m

\* ---- initialization
PL_LOG_3 == <<0, 1>>
PL_LOG_5 == <<0, 1>>
PL_LOG_23 == <<33, 59, 160, 0>>                       \* 21 3B A0 00
PL_LOG_11_WHITE == <<9, 32, 11, 80, 10, 36, 80>>      \* 09 20 0B 50 0A 24 50
PL_LOG_14_WHITE == <<48, 57, 0, 48, 0>>               \* 30 39 00 30 00
PL_LOG_11_RED == <<9, 32, 11, 80, 0, 50, 68>>         \* 09 20 0B 50 00 32 44
PL_LOG_14_RED == <<48, 51, 0, 49, 0>>                 \* 30 33 00 31 00

\* _get_init_payloads
PL(m, name) ==
    IF m.dis_mode = "WHITE"
    THEN CASE name = "PL_LOG_3" -> PL_LOG_3
           [] name = "PL_LOG_5" -> PL_LOG_5
           [] name = "PL_LOG_11" -> PL_LOG_11_WHITE
           [] name = "PL_LOG_14" -> PL_LOG_14_WHITE
           [] name = "PL_LOG_18" -> PL_LOG_11_WHITE
           [] name = "PL_LOG_21" -> PL_LOG_14_WHITE
           [] name = "PL_LOG_23" -> PL_LOG_23
           [] name = "PL_LOG_27" -> PL_LOG_23
    ELSE CASE name = "PL_LOG_3" -> PL_LOG_3
           [] name = "PL_LOG_5" -> PL_LOG_5
           [] name = "PL_LOG_11" -> PL_LOG_11_RED
           [] name = "PL_LOG_14" -> PL_LOG_14_RED
           [] name = "PL_LOG_23" -> PL_LOG_23
           [] OTHER -> <<>>

\* "data = _recv_and_ack_data(1000); if not payload_is(data, PL[name]): raise"
IWait(name) == <<I("DATA"), Instr("CHK", <<>>, 0, NoArg, name)>>

\* A wait that takes whatever the peer sent, or nothing, as the payload.
Check_lenient(m, ins) == Pop(m)

Check(m, ins) ==
    IF payload_is(m.data, PL(m, ins.t)) THEN Pop(m)
    ELSE Raise(m, "DDPHandshakeError")

_init_common_start ==
    <<ISend(<<21, 1, 1, 2, 0, 0>>, 0, "init")>> \o IWait("PL_LOG_3")
    \o <<ISend(<<1, 1, 0>>, 0, "init"), ISend(<<8>>, 0, "init")>>

_init_path_b_white == <<ISend(<<32, 59, 160, 0>>, 0, "init")>>

_init_path_c_white ==
    <<ISend(<<1, 1, 0>>, 0, "init")>> \o IWait("PL_LOG_14")
    \o <<ISend(<<8>>, 0, "init")>> \o IWait("PL_LOG_18")
    \o <<ISend(<<32, 59, 160, 0>>, 0, "init")>> \o IWait("PL_LOG_21")
    \o IWait("PL_LOG_23")
    \o <<ISend(<<32, 59, 160, 0>>, 0, "init")>> \o IWait("PL_LOG_27")
    \o <<ISend(<<51>>, 0, "init"), ISend(<<51>>, 0, "init")>>

_init_path_red ==
    IWait("PL_LOG_14") \o <<ISend(<<32, 59, 160, 0>>, 0, "init")>>
    \o IWait("PL_LOG_23") \o <<ISend(<<51>>, 0, "init")>>

\* initrec: perform_initialization returns; heard are the payloads its waits
\* for data were given, reply the answer to its final A3
InitEnded(m, reply) ==
    [m EXCEPT !.initrec = [st |-> m.state, opener |-> m.i_am_opener,
                           mode |-> m.dis_mode, heard |-> m.initrx,
                           reply |-> reply],
              !.initrx = <<>>]

\* A perform_initialization that does not ask who opened the session.
perform_initialization_any_opener(m) ==
    Push(Pop([_set_state(m, "INITIALIZING") EXCEPT !.send_seq_num = 0,
                                                   !.lastData = -1]),
         _init_common_start \o <<I("DATA"), I("FORK"), I("END_INIT")>>)

\* perform_initialization, up to the handshake fork
perform_initialization(m) ==
    LET m1 == [_set_state(m, "INITIALIZING") EXCEPT !.send_seq_num = 0,
                                                    !.lastData = -1]
    IN  IF ~m1.i_am_opener \/ m1.dis_mode = "UNKNOWN"
        THEN Pop(InitEnded([_set_state(m1, "DISCONNECTED") EXCEPT !.rv = FALSE],
                           None))
        ELSE Push(Pop(m1),
                  _init_common_start
                  \o <<I("DATA"), I("FORK"), I("END_INIT")>>)

\* the handshake fork: an out-of-order PL_LOG_5 is absorbed once (k = 1 marks
\* the re-read), then the path is chosen by the payload
InitFork(m, ins) ==
    IF m.data = None THEN Raise(m, "DDPHandshakeError")
    ELSE IF ins.k = 0 /\ payload_is(m.data, PL(m, "PL_LOG_5"))
    THEN Push(Pop(m), <<I("DATA"), Instr("FORK", <<>>, 1, NoArg, "")>>)
    ELSE LET final == <<ICan(KA_KEEP_PING, "init"),
                        ID("SPEC", IF m.dis_mode = "RED" THEN KA_RED_ACCEPT
                                   ELSE KA_WHITE_ACCEPT),
                        I("INIT_DONE")>>
         IN  IF payload_is(m.data, PL(m, "PL_LOG_14")) /\ m.dis_mode = "WHITE"
             THEN Push(Pop(m), _init_path_b_white \o final)
             ELSE IF payload_is(m.data, PL(m, "PL_LOG_11"))
             THEN Push(Pop(m), (IF m.dis_mode = "RED" THEN _init_path_red
                                ELSE _init_path_c_white) \o final)
             ELSE Raise(m, "DDPHandshakeError")

\* the end of the try block of perform_initialization
InitDone(m) ==
    IF m.data = None THEN Raise(m, "DDPHandshakeError")
    ELSE Pop(InitEnded([_set_state(m, "READY") EXCEPT !.last_ka_sent = m.now,
                                                      !.rv = TRUE],
                       m.data))

\* ------------------------------------------------------------ DisService
\* The engine of src/ sets dis_mode to WHITE or RED only: the colour members
\* of DisMode and opcode_offset, which the service reads, belong to an engine
\* revision that is not part of src/.  On a mono cluster opcode_offset is 0.
opcode_offset == 0
LINE_WIDTH_MONO == 64
LINE_HEIGHT_MONO == 9
CHAR_WIDTH_MONO == 5
ABS_Y_OFFSET == 27                       \* 0x1B
INACTIVITY_TIMEOUT == 30
\* The clock now counts from the construction of the service, time.time()
\* from 1970: the 0.0 that last_draw_time starts with lies further back than
\* any timeout.
LongAgo == 0 - (INACTIVITY_TIMEOUT + 1)

_is_color_mode(m) == m.dis_mode \in {"COLOR_TYPE1", "COLOR_TYPE2"}

\* audscii_trans[ord(c) % 256] for the characters of the model
audscii_trans(c) ==
    CASE c = 65 -> 65 [] c = 66 -> 66 [] c = 67 -> 67 [] OTHER -> 32

_translate_audscii(text) == [i \in 1..Len(text) |-> audscii_trans(text[i] % 256)]

\* BITMAPS: icon name -> w, h, data
BITMAPS ==
    [name \in {"arrow"} |-> [w |-> 8, h |-> 2, data |-> <<129, 66>>]]

IFrame(payload) == Instr("FRAME", payload, 0, NoArg, "draw")

payload_claim == <<82, 5, 130, 0, 27, 64, 48>>        \* 52 05 82 00 1B 40 30
payload_ok == <<83, 133>>                              \* 53 85
payload_busy == <<83, 132>>                            \* 53 84
payload_free == <<83, 5>>                              \* 53 05
payload_ready == <<46>>                                \* 2E
payload_clear_conf == <<47>>                           \* 2F
payload_window_reset == <<82 + opcode_offset, 5, 0, 0, 27, 64, 48>>
payload_commit == <<57>>                               \* 39

\* claim_nav_screen (mono path), up to its first wait; END_CLAIM is the
\* handler of its try block.
claim_nav_screen(m) ==
    IF m.state # "READY" THEN Pop([m EXCEPT !.rv = FALSE])
    ELSE Push(Pop(m), <<ISend(payload_claim, 0, "claim"), I("DATA"),
                        I("CLAIM_A"), I("END_CLAIM")>>)

\* clrec: claim_nav_screen returns after an answer it does not expect (or
\* none): the answer, the engine state and screen_is_active it leaves
ClaimEnded(m) ==
    [m EXCEPT !.clrec = [answer |-> m.data, st |-> m.state,
                         active |-> m.screen_is_active, rv |-> m.rv]]

\* after the first answer to the claim
ClaimA(m) ==
    IF payload_is(m.data, payload_ok)
    THEN Pop([m EXCEPT !.screen_is_active = TRUE, !.rv = TRUE])
    ELSE IF payload_is(m.data, payload_busy)
    THEN Push(Pop(m), <<I("DATA"), I("CLAIM_B")>>)
    ELSE Pop(ClaimEnded([m EXCEPT !.screen_is_active = TRUE, !.rv = TRUE]))

ClaimB(m) ==
    IF ~payload_is(m.data, payload_free)
    THEN Raise([m EXCEPT !.clbad = TRUE], "DDPHandshakeError")
    ELSE Push(Pop(m), <<I("DATA"), I("CLAIM_C")>>)

ClaimC(m) ==
    IF ~payload_is(m.data, payload_ready)
    THEN Raise([m EXCEPT !.clbad = TRUE], "DDPHandshakeError")
    ELSE Push(Pop(m), <<ISend(payload_clear_conf, 0, "claim"),
                        ISend(payload_claim, 0, "claim"), I("DATA"),
                        I("CLAIM_D")>>)

\* after the answer to the second claim: active whatever the answer
ClaimD(m) ==
    IF payload_is(m.data, payload_ok)
    THEN Pop([m EXCEPT !.screen_is_active = TRUE, !.rv = TRUE])
    ELSE Pop(ClaimEnded([m EXCEPT !.screen_is_active = TRUE, !.rv = TRUE]))

\* clear_screen
clear_screen(m) ==
    IF ~m.screen_is_active
    THEN Push(Pop(m), <<I("CLAIM"), I("CLEAR2")>>)
    ELSE Push(Pop(m), <<I("CLEAR2")>>)

\* A clear that resets the line cache and draws nothing.
ClearFrames_none(m) == Pop([m EXCEPT !.line_cache = <<>>])

ClearFrames(m) ==
    Push(Pop([m EXCEPT !.line_cache = <<>>]),
         <<IFrame(<<82 + opcode_offset, 5, 2, 0, 27, 64, 48>>),
           IFrame(payload_window_reset)>>)

\* A line cache that takes no entry.
line_cache_put_skipped(lc, y, entry) == lc

\* self.line_cache[y] = (cache_key, text_len, is_inverted)
line_cache_put(lc, y, entry) ==
    [yy \in DOMAIN lc \cup {y} |-> IF yy = y THEN entry ELSE lc[yy]]

\* A write_text that never clears the pixels a shorter text leaves behind.
trailing_clear_none(x, abs_y, text_len, old_len) == <<>>

\* write_text, non-inverted mono text: the clear of the trailing area
trailing_clear(x, abs_y, text_len, old_len) ==
    LET trail_x == x + text_len * CHAR_WIDTH_MONO
        trail_w == old_len * CHAR_WIDTH_MONO - text_len * CHAR_WIDTH_MONO
    IN  IF text_len < old_len /\ trail_w > 0
        THEN <<IFrame(<<82, 5, 2, trail_x, abs_y, trail_w, LINE_HEIGHT_MONO>>),
               IFrame(<<82, 5, 0, 0, 27, 64, 48>>)>>
        ELSE <<>>

\* write_text (mono path); ins.c is the command, ins.k = 1 is force_update
write_text(m, ins) ==
    LET text == ins.c.text
        x == ins.c.x
        y == ins.c.y
        flags == ins.c.flags
        force_update == ins.k = 1
        cache_key == <<x, y, text, 40, 7, flags>>
        text_len == Len(text)
        is_inverted == (flags \div 128) % 2 = 1
        known == y \in DOMAIN m.line_cache
        old_len == IF known THEN m.line_cache[y].len ELSE 0
        old_is_inverted == IF known THEN m.line_cache[y].inv ELSE FALSE
        chars == _translate_audscii(text)
        abs_y == y + ABS_Y_OFFSET
        protocol_flags == ((flags \div 4) % 32) * 4       \* flags & 0x7C
        entry == [key |-> cache_key, len |-> text_len, inv |-> is_inverted]
        m1 == [m EXCEPT !.line_cache = line_cache_put(@, y, entry)]
        frames ==
            IF is_inverted
            THEN <<IFrame(<<82, 5, 3, x, abs_y, LINE_WIDTH_MONO, LINE_HEIGHT_MONO>>),
                   IFrame(<<87 + opcode_offset, Len(chars) + 3, protocol_flags, 0, 0>>
                          \o chars),
                   IFrame(<<82, 5, 0, 0, 27, 64, 48>>)>>
            ELSE (IF old_is_inverted
                  THEN <<IFrame(<<82, 5, 2, 0, abs_y, LINE_WIDTH_MONO,
                                  LINE_HEIGHT_MONO>>),
                         IFrame(<<82, 5, 0, 0, 27, 64, 48>>)>>
                  ELSE <<>>)
                 \o trailing_clear(x, abs_y, text_len, old_len)
                 \o <<IFrame(<<87 + opcode_offset, Len(chars) + 3,
                                protocol_flags + 2, x, y>> \o chars)>>
    IN  IF known /\ cache_key = m.line_cache[y].key /\ ~force_update
        THEN Pop(m)
        ELSE Push(Pop(m1), frames)

\* A draw_bitmap that draws an empty window for an icon it does not know.
draw_bitmap_blank(m, ins) ==
    Push(Pop(m), <<IFrame(<<82 + opcode_offset, 5, 0, ins.c.x,
                             ins.c.y + ABS_Y_OFFSET, 0, 0>>),
                   IFrame(payload_window_reset)>>)

\* draw_bitmap (mono path)
draw_bitmap(m, ins) ==
    IF ins.c.icon_name \notin DOMAIN BITMAPS THEN Pop(m)
    ELSE LET icon == BITMAPS[ins.c.icon_name]
             abs_y == ins.c.y + ABS_Y_OFFSET
             bytes_per_row == (icon.w + 7) \div 8
             rows_per_chunk == IF 30 \div bytes_per_row < 1 THEN 1
                               ELSE 30 \div bytes_per_row
             starts == {i \in 0..(icon.h - 1) : i % rows_per_chunk = 0}
             n == Cardinality(starts)
             chunk(j) ==
                 LET i == (j - 1) * rows_per_chunk
                     chunk_rows == IF rows_per_chunk < icon.h - i
                                   THEN rows_per_chunk ELSE icon.h - i
                     part == SubSeq(icon.data, i * bytes_per_row + 1,
                                    i * bytes_per_row + chunk_rows * bytes_per_row)
                 IN  IFrame(<<85 + opcode_offset, Len(part) + 3, 2, 0, i>> \o part)
         IN  Push(Pop(m),
                  <<IFrame(<<82 + opcode_offset, 5, 0, ins.c.x, abs_y, icon.w,
                             icon.h>>)>>
                  \o [j \in 1..n |-> chunk(j)]
                  \o <<IFrame(payload_window_reset)>>)

\* draw_rectangle (mono path)
draw_rectangle(m, x, y, w, h, color_idx) ==
    LET abs_y == y + ABS_Y_OFFSET IN
    IF color_idx = 0
    THEN Push(Pop(m), <<IFrame(<<82 + opcode_offset, 5, 2, x, abs_y, w, h>>),
                        IFrame(payload_window_reset)>>)
    ELSE Push(Pop(m), <<IFrame(<<99 + opcode_offset, 4,
                                 IF w > h THEN 32 ELSE 16, x, abs_y,
                                 IF w > h THEN w ELSE h>>)>>)

\* draw_line (mono path)
draw_line(m, ins) ==
    LET orientation == IF ins.c.vertical THEN 16 ELSE 32
        abs_y == IF ~ins.c.vertical THEN ins.c.y + ABS_Y_OFFSET ELSE ins.c.y
    IN  Push(Pop(m), <<IFrame(<<99 + opcode_offset, 4, orientation, ins.c.x,
                                abs_y, ins.c.length>>)>>)

\* commit_frame
commit_frame(m) == Push(Pop(m), <<IFrame(payload_commit)>>)

\* command_cache is a dict: its entries keep the order of their first insertion.
CacheKey(cmd) == <<cmd.command, cmd.y, cmd.x>>

CachePut(cc, cmd) ==
    IF \E i \in 1..Len(cc) : CacheKey(cc[i]) = CacheKey(cmd)
    THEN [i \in 1..Len(cc) |-> IF CacheKey(cc[i]) = CacheKey(cmd) THEN cmd ELSE cc[i]]
    ELSE Append(cc, cmd)

\* sorted(command_cache.values(), key = (y, x)): a stable sort
SortKeyLeq(a, b) == a.y < b.y \/ (a.y = b.y /\ a.x <= b.x)

RECURSIVE SortedInsert(_, _)
SortedInsert(sorted, cmd) ==
    IF sorted = <<>> THEN <<cmd>>
    ELSE IF SortKeyLeq(Head(sorted), cmd)
    THEN <<Head(sorted)>> \o SortedInsert(Tail(sorted), cmd)
    ELSE <<cmd>> \o sorted

RECURSIVE SortCmds(_)
SortCmds(cc) ==
    IF cc = <<>> THEN <<>>
    ELSE SortedInsert(SortCmds(SubSeq(cc, 1, Len(cc) - 1)), cc[Len(cc)])

\* The flags of _execute_command packed in ins.k.
ExecK(cache, force_update, dry_run) ==
    (IF cache THEN 4 ELSE 0) + (IF force_update THEN 2 ELSE 0)
    + (IF dry_run THEN 1 ELSE 0)

\* _execute_command
_execute_command(m, ins) ==
    LET c == ins.c.command
        cache == ins.k \div 4 = 1
        force_update == (ins.k \div 2) % 2 = 1
        dry_run == ins.k % 2 = 1
        m1 == IF cache /\ c \in {"draw_text", "draw_bitmap", "draw_rect", "draw_line"}
              THEN [m EXCEPT !.command_cache = CachePut(@, ins.c)]
              ELSE m
    IN  CASE c = "clear" ->
               LET m2 == [m1 EXCEPT !.command_cache = <<>>, !.line_cache = <<>>] IN
               IF dry_run THEN Pop(m2) ELSE Push(Pop(m2), <<I("CLEAR")>>)
          [] c = "commit" ->
               IF dry_run THEN Pop(m1) ELSE commit_frame(m1)
          [] c = "clear_area" ->
               IF dry_run THEN Pop(m1)
               ELSE draw_rectangle(m1, ins.c.x, ins.c.y, ins.c.w, ins.c.h, 0)
          [] c = "draw_text" ->
               IF dry_run THEN Pop(m1)
               ELSE Push(Pop(m1), <<IC("TEXT", ins.c, IF force_update THEN 1 ELSE 0)>>)
          [] c = "draw_bitmap" ->
               IF dry_run THEN Pop(m1) ELSE draw_bitmap(m1, ins)
          [] c = "draw_rect" ->
               IF dry_run THEN Pop(m1)
               ELSE draw_rectangle(m1, ins.c.x, ins.c.y, ins.c.w, ins.c.h, ins.c.color)
          [] c = "draw_line" ->
               IF dry_run THEN Pop(m1) ELSE draw_line(m1, ins)
          [] OTHER -> Pop(m1)

\* A restore_screen that clears the screen with the command "clear".
restore_screen_by_command(m) ==
    IF m.command_cache = <<>> THEN Pop(m)
    ELSE Push(Pop(m), <<IC("EXEC", Simple("clear"), ExecK(FALSE, TRUE, FALSE)),
                        I("RESTORE2")>>)

\* restore_screen
restore_screen(m) ==
    IF m.command_cache = <<>> THEN Pop(m)
    ELSE Push(Pop(m), <<I("CLEAR"), I("RESTORE2")>>)

\* restore_screen replaying nothing
RestoreReplay_commit_only(m) == Push(Pop(m), <<I("COMMIT"), I("RESTORED")>>)

\* restore_screen after clear_screen: the replay and the commit
RestoreReplay(m) ==
    LET sorted_cmds == SortCmds(m.command_cache) IN
    Push(Pop(m),
         [i \in 1..Len(sorted_cmds) |->
             IC("EXEC", sorted_cmds[i], ExecK(FALSE, TRUE, FALSE))]
         \o <<I("COMMIT"), I("RESTORED")>>)

\* ------------------------------------------------------------ the thread
\* The iteration of run()'s READY branch after poll and keep-alive.
RestoreIf(m) ==
    IF ~m.screen_is_active /\ m.command_cache # <<>>
    THEN Push(Pop(m), <<I("CLAIM"), I("RESTORE_THEN")>>)
    ELSE Pop(m)

RestoreThen(m) ==
    IF m.rv THEN Push(Pop(m), <<I("RESTORE")>>) ELSE Pop(m)

\* The drain loop of the READY branch (k = 0) and of the PAUSED branch
\* (k = 1): one command is taken from the queue, or the loop ends on zmq.Again.
\* ulog: the command was taken while the engine was in state st and was run
\* as a dry run ("dry"), run to draw ("draw") or discarded ("dropped").
Taken(m, st, cmd, how) ==
    IF st = "PAUSED"
    THEN [m EXCEPT !.ulog = Append(@, [cmd |-> cmd, how |-> how,
                                      n |-> Len(m.wire),
                                      eng |-> <<m.state, m.dis_mode, m.i_am_opener,
                                                m.send_seq_num, m.last_ka_sent,
                                                m.screen_is_active>>])]
    ELSE m

\* "self.last_draw_time = time.time()".  Only the automatic release reads
\* last_draw_time: with the release switched off the stamp is dead and the
\* model leaves the variable as it is.
Stamped(m) ==
    IF m.ENABLE_AUTO_RELEASE THEN [m EXCEPT !.last_draw_time = m.now] ELSE m

\* draw_socket.recv_json gives the message that has waited longest: the
\* place in the queue of the command it returns.
recv_json_newest(q) == Len(q)

recv_json(q) == 1

Without(q, i) == SubSeq(q, 1, i - 1) \o SubSeq(q, i + 1, Len(q))

\* drainrec: the loop began with ins.d[1] commands waiting and has taken
\* ins.d[2] since (ins.d is empty before the first recv_json).
Drained(m, ins) ==
    LET waiting == IF ins.d = <<>> THEN Len(m.queue) ELSE ins.d[1]
        taken == IF ins.d = <<>> THEN 1 ELSE ins.d[2] + 1
        m1 == [m EXCEPT !.todo[1].d = <<waiting, taken>>]
    IN  IF ins.k = 0 /\ taken > waiting
        THEN [m1 EXCEPT !.drainrec = [waiting |-> waiting, taken |-> taken,
                                      st |-> m.state]]
        ELSE m1

Drain(m, ins) ==
    IF m.queue = <<>> THEN Pop(m)
    ELSE LET i == recv_json(m.queue)
             cmd == m.queue[i]
             m1 == [Drained(m, ins) EXCEPT !.queue = Without(@, i),
                                           !.qn = Without(@, i),
                                           !.cur = m.qn[i]]
         IN  IF ins.k = 1
             THEN Push(Taken(m1, m.state, cmd, "dry"),
                       <<IC("EXEC", cmd, ExecK(TRUE, FALSE, TRUE))>>)
             ELSE IF ~m1.screen_is_active
             THEN Push(m1, <<I("CLAIM"), Instr("DRAIN_CLAIMED", <<>>, 0, cmd, m.state)>>)
             ELSE Push(Taken(Stamped(m1), m.state, cmd, "draw"),
                       <<IC("EXEC", cmd, ExecK(TRUE, FALSE, FALSE))>>)

\* "if not self.claim_nav_screen(): continue"; ins.t is the engine state
\* in which the command was taken
DrainClaimed(m, ins) ==
    IF m.rv
    THEN Push(Pop(Taken(Stamped(m), ins.t, ins.c, "draw")),
              <<IC("EXEC", ins.c, ExecK(TRUE, FALSE, FALSE))>>)
    ELSE LET m1 == IF ins.c.command \in {"draw_text", "draw_bitmap",
                                          "draw_rect", "draw_line"}
                   THEN [m EXCEPT !.droprec =
                            Append(@, [cmd |-> ins.c, st |-> ins.t])]
                   ELSE m
         IN  Pop(Taken(m1, ins.t, ins.c, "dropped"))

\* the SESSION_ACTIVE branch after perform_initialization
AfterInit(m) ==
    IF m.rv
    THEN LET m1 == send_can(m, CAN_ID_SOURCE, <<0, 0, 0, 0, 0, 0, 0, 0>>, "source") IN
         IF m1.exc # "" THEN m1 ELSE Pop([m1 EXCEPT !.screen_is_active = FALSE])
    ELSE Pop(m)

\* the automatic release at the end of the READY branch
AutoRelease(m) ==
    IF m.ENABLE_AUTO_RELEASE /\ m.screen_is_active
       /\ m.now - m.last_draw_time > INACTIVITY_TIMEOUT
    THEN Push(Pop(m), <<I("RELEASE"), I("RELEASED")>>)
    ELSE Pop(m)

\* "if self.ddp.release_screen(): self.screen_is_active = False"
Released(m) ==
    IF m.rv
    THEN Pop([m EXCEPT !.screen_is_active = FALSE,
                       !.relrec = [idle |-> m.now - m.last_draw_time,
                                   st |-> m.state]])
    ELSE Pop(m)

DDPError == {"DDPCANError", "DDPAckTimeoutError", "DDPHandshakeError"}

\* An exception travels down the continuation to the first handler that
\* catches it; the last handler is the "except Exception" of run().
RECURSIVE Unwind(_)
Unwind(m) ==
    IF m.todo = <<>>
    THEN [_set_state(m, "DISCONNECTED") EXCEPT !.exc = ""]
    ELSE LET h == Head(m.todo).op IN
         IF h \in {"END_FRAME", "END_RELEASE"}
            /\ m.exc \in {"DDPAckTimeoutError", "DDPCANError"}
         THEN Pop([_set_state(m, "DISCONNECTED") EXCEPT !.exc = "", !.rv = FALSE])
         ELSE IF h = "END_INIT" /\ m.exc \in DDPError
         THEN Pop(InitEnded([_set_state(m, "DISCONNECTED") EXCEPT !.exc = "",
                                                                 !.rv = FALSE],
                            None))
         ELSE IF h = "END_RED"
         THEN Pop([m EXCEPT !.exc = "", !.rv = FALSE])
         ELSE IF h = "END_CLAIM" /\ m.exc \in DDPError
         THEN LET m1 == [m EXCEPT !.exc = "", !.rv = FALSE] IN
              Pop(IF m.clbad THEN [ClaimEnded(m1) EXCEPT !.clbad = FALSE] ELSE m1)
         ELSE Unwind(Pop(m))

PopOk(m) == IF m.exc # "" THEN m ELSE Pop(m)

\* ---- observation of the thread (no effect on the program)
\* flog: send_ddp_frame was called in state st with n frames of this step on
\* the wire; returned: it came back at once, with the value rv.
Attempt(m, r) ==
    IF m.state = "READY" THEN r
    ELSE [r EXCEPT !.flog = Append(@, [st |-> m.state, n |-> Len(m.wire),
                                      seq |-> m.send_seq_num,
                                      returned |-> r.todo = Tail(m.todo),
                                      rv |-> r.rv])]

\* karec: what the keep-alive step found and did
KeepAlive(m, r) ==
    [r EXCEPT !.karec =
        [st |-> m.state, opener |-> m.i_am_opener, at |-> m.now,
         stamp0 |-> m.last_ka_sent, stamp1 |-> r.last_ka_sent, bus |-> m.busOk,
         sent |-> Len(r.wire) - Len(m.wire)]]

\* rplay: restore_screen starts with the cache src; afterResume: it is the
\* replay owed since PAUSED -> READY, paused the cache at that pause, after
\* the cache when restore_screen returns
RestoreStart(m, r) ==
    [r EXCEPT !.rplay = [src |-> m.command_cache, afterResume |-> m.owed,
                         paused |-> m.pausedCache, sent |-> <<>>, done |-> FALSE,
                         after |-> <<>>],
              !.pausedCache = <<>>]

\* rplay: a frame of restore_screen was sent and acknowledged
FrameSent(m, ins) ==
    IF m.rplay # <<>> /\ ~m.rplay.done
    THEN [m EXCEPT !.rplay.sent = Append(@, ins.d)]
    ELSE m

\* line_cache holds the key write_text computes for the text command c
Shown(lc, c) ==
    c.y \in DOMAIN lc /\ lc[c.y].key = <<c.x, c.y, c.text, 40, 7, c.flags>>

\* lastExec: _execute_command is called for the numbered command ins.c; the
\* statements it leaves to run are followed by the mark of its return.  prev
\* is the call made before it.  A replay ends the record.
Called(m, ins, r) ==
    IF ins.k \div 4 = 0 THEN [r EXCEPT !.lastExec = <<>>]
    ELSE IF m.cur = 0 THEN r
    ELSE LET pushed == Len(r.todo) - (Len(m.todo) - 1)
         IN  [r EXCEPT
                !.todo = SubSeq(@, 1, pushed) \o <<I("EXEC_END")>>
                         \o SubSeq(@, pushed + 1, Len(@)),
                !.lastExec =
                    [c |-> ins.c, dry |-> ins.k % 2 = 1, n |-> m.cur,
                     st0 |-> m.state, seq0 |-> m.send_seq_num,
                     hit |-> Shown(m.line_cache, ins.c),
                     lc0 |-> m.line_cache, act0 |-> m.screen_is_active,
                     sent |-> <<>>, done |-> FALSE,
                     prev |-> IF m.lastExec # <<>> /\ m.lastExec.done
                              THEN m.lastExec ELSE <<>>]]

\* lastExec, execrec: _execute_command returns
ExecEnded(m) ==
    LET call == m.lastExec
        kept == [c |-> call.c, dry |-> call.dry, n |-> call.n,
                 st0 |-> call.st0, st1 |-> m.state, hit |-> call.hit,
                 sent |-> call.sent, done |-> TRUE,
                 after |-> <<m.command_cache, m.line_cache, m.screen_is_active>>]
    IN  Pop([m EXCEPT !.lastExec = kept,
                      !.execrec = Append(@, [this |-> kept, prev |-> call.prev,
                                             seq0 |-> call.seq0,
                                             seq1 |-> m.send_seq_num,
                                             lc0 |-> call.lc0,
                                             act0 |-> call.act0])])

\* lastExec: the command in execution handed the payload ins.d to
\* send_ddp_frame
Drawn(m, ins, r) ==
    IF m.cur > 0 /\ m.lastExec # <<>> /\ ~m.lastExec.done
    THEN [r EXCEPT !.lastExec.sent = Append(@, ins.d)]
    ELSE r

\* rplay: restore_screen returns
Restored(m) ==
    Pop([m EXCEPT !.rplay.done = TRUE, !.rplay.after = m.command_cache,
                  !.owed = FALSE])

\* owed: an emptied cache leaves nothing to replay
Executed(r) ==
    IF r.command_cache = <<>> /\ r.state # "PAUSED"
    THEN [r EXCEPT !.owed = FALSE, !.pausedCache = <<>>]
    ELSE r

StatusPayloads ==
    {STAT_BUSY_HALF, STAT_BUSY_WARN_HALF, STAT_BUSY_FULL, STAT_BUSY_WARN_FULL,
     <<123, 132>>, <<123, 4>>, <<123, 136>>, <<123, 8>>,
     STAT_FREE_HALF, STAT_FREE_FULL, CMD_REINIT_REQ}

\* pollrec, pausedCache, owed: what the poll read and the transition it made
Polled(m, f, r) ==
    LET r1 == IF f # None
                 /\ \/ r.state # m.state
                    \/ /\ TypeOf(f) \in {0, PKT_TYPE_DATA_END, PKT_TYPE_DATA_BODY}
                       /\ Tail(f) \in StatusPayloads
              THEN [r EXCEPT !.pollrec =
                       [st0 |-> m.state, payload |-> Tail(f), st1 |-> r.state,
                        urgent |-> Cardinality({i \in DOMAIN r.wire :
                                                  r.wire[i].t = "urgent"})]]
              ELSE r
    IN  IF m.state = "READY" /\ r.state = "PAUSED"
        THEN [r1 EXCEPT !.pausedCache = m.command_cache, !.owed = FALSE]
        ELSE IF m.state = "PAUSED" /\ r.state = "READY"
        THEN [r1 EXCEPT !.owed = m.command_cache # <<>>,
                        !.pausedCache = IF m.command_cache # <<>> THEN @ ELSE <<>>]
        ELSE r1

\* rxrec: the read of operation op gave the data frame f (0x0_ or 0x1_);
\* acks are the ACK frames sent since, due is the one the frame calls for
Received(f, op, r) ==
    IF Len(f) >= 1 /\ f # TIMEOUT /\ TypeOf(f) \in {0, PKT_TYPE_DATA_END}
    THEN LET due == <<PKT_TYPE_ACK + ((SeqOf(f) + 1) % 16)>> IN
         IF r.busOk /\ r.acks # <<due>>
         THEN [r EXCEPT !.rxrec = [op |-> op, seq |-> SeqOf(f), acks |-> r.acks]]
         ELSE r
    ELSE r

\* initrx: a wait for data of perform_initialization ended with a frame
Heard(m, r) ==
    IF m.state = "INITIALIZING" /\ r.exc = "" /\ r.todo = Tail(m.todo)
       /\ r.data # None
    THEN [r EXCEPT !.initrx = Append(@, Tail(r.data))]
    ELSE r

Poll(m, f) == Received(f, "poll", Polled(m, f, poll_bus_events(m, f)))

\* One statement that does not read the bus.
Step(m) ==
    LET ins == Head(m.todo)
        op == ins.op
    IN  CASE op = "SEND" -> send_data_packet(m, ins)
          [] op = "ACKCHK" -> AckCheck(m)
          [] op = "CAN" -> PopOk(send_can(m, CAN_ID_SEND, ins.d, ins.t))
          [] op = "FRAME" -> Drawn(m, ins, Attempt(m, send_ddp_frame(m, ins)))
          [] op = "END_FRAME" -> Pop([FrameSent(m, ins) EXCEPT !.rv = TRUE])
          [] op = "END_RELEASE" -> Pop([m EXCEPT !.rv = TRUE])
          [] op \in {"END_INIT", "END_RED", "END_CLAIM"} -> Pop(m)
          [] op = "RED_CHK" -> RedCheck(m)
          [] op = "RED_DONE" -> RedDone(m)
          [] op = "WHITE_OPENED" -> _white_dis_active_open(m)
          [] op = "OPEN" -> detect_and_open_session(m)
          [] op = "INIT" -> perform_initialization(m)
          [] op = "CHK" -> Check(m, ins)
          [] op = "FORK" -> InitFork(m, ins)
          [] op = "INIT_DONE" -> InitDone(m)
          [] op = "AFTER_INIT" -> AfterInit(m)
          [] op = "KA" -> PopOk(KeepAlive(m, send_keepalive_if_needed(m)))
          [] op = "CLAIM" -> claim_nav_screen(m)
          [] op = "CLAIM_A" -> ClaimA(m)
          [] op = "CLAIM_B" -> ClaimB(m)
          [] op = "CLAIM_C" -> ClaimC(m)
          [] op = "CLAIM_D" -> ClaimD(m)
          [] op = "CLEAR" -> clear_screen(m)
          [] op = "CLEAR2" -> ClearFrames(m)
          [] op = "TEXT" -> write_text(m, ins)
          [] op = "COMMIT" -> commit_frame(m)
          [] op = "EXEC" -> Called(m, ins, Executed(_execute_command(m, ins)))
          [] op = "EXEC_END" -> ExecEnded(m)
          [] op = "RESTORE" -> RestoreStart(m, restore_screen(m))
          [] op = "RESTORE2" -> RestoreReplay(m)
          [] op = "RESTORED" -> Restored(m)
          [] op = "RESTORE_IF" -> RestoreIf(m)
          [] op = "RESTORE_THEN" -> RestoreThen(m)
          [] op = "DRAIN" -> Drain(m, ins)
          [] op = "DRAIN_CLAIMED" -> DrainClaimed(m, ins)
          [] op = "AUTOREL" -> AutoRelease(m)
          [] op = "RELEASE" -> release_screen(m)
          [] op = "RELEASED" -> Released(m)

\* The thread runs until it reads the bus or the iteration of run() ends.
RECURSIVE Exec(_)
Exec(m) ==
    IF m.exc # "" THEN Exec(Unwind(m))
    ELSE IF m.todo = <<>> THEN m
    ELSE IF Head(m.todo).op \in Blocking THEN m
    ELSE Exec(Step(m))

\* Between two iterations of run() no local of the last one is alive.
Finish(m) ==
    IF m.todo = <<>>
    THEN [m EXCEPT !.data = None, !.rv = FALSE, !.initrx = <<>>, !.cur = 0]
    ELSE m

Run(m) == Install(Finish(Exec(m)))

\* ------------------------------------------------------------ the bus
DataEnd(seq, payload) == <<PKT_TYPE_DATA_END + seq>> \o payload

\* The frames the cluster sends in the model.
RxSet ==
    {KA_CLOSE, KA_KEEP_PING, KA_RED_PRESENT, KA_WHITE_OPEN, KA_WHITE_ACCEPT,
     KA_RED_ACCEPT, <<PKT_TYPE_ACK + 1>>, <<144>>,
     <<PKT_TYPE_DATA_BODY, 83, 132>>, <<3, 46>>}
    \cup {DataEnd(0, pl) : pl \in {<<123, 4>>, <<123, 136>>, <<123, 8>>}}
    \cup {DataEnd(0, pl) : pl \in
            {payload_ok, STAT_BUSY_HALF, STAT_BUSY_WARN_HALF, STAT_BUSY_FULL,
             STAT_BUSY_WARN_FULL, STAT_FREE_HALF, STAT_FREE_FULL, CMD_REINIT_REQ,
             <<123, 132>>, PL_LOG_3, PL_LOG_11_WHITE, PL_LOG_14_WHITE,
             PL_LOG_11_RED, PL_LOG_14_RED, PL_LOG_23, <<153>>}}
    \cup {DataEnd(15, STAT_BUSY_HALF)}

\* _recv_specific tells apart the frame it waits for, the keep-alive frames
\* and the rest, which it drops: the wait is given one frame of each kind.
RxSpecific ==
    {KA_CLOSE, KA_KEEP_PING, KA_RED_PRESENT, KA_WHITE_ACCEPT, KA_RED_ACCEPT,
     <<PKT_TYPE_ACK + 1>>, <<144>>, DataEnd(0, STAT_BUSY_HALF)}

Env == <<now, busOk, halted, ui_left>>

Idle == ~halted /\ todo = <<>>
\* the machine at the start of an iteration of run()
Fresh ==
    [Mach EXCEPT !.rplay = <<>>, !.cur = 0, !.openlog = <<>>,
                 !.lastExec = IF state = "READY" THEN @ ELSE <<>>]
At(op) == ~halted /\ todo # <<>> /\ Head(todo).op = op

\* ------------------------------------------------------------ actions
\* run(), DISCONNECTED branch
RunDisconnected ==
    /\ Idle /\ state = "DISCONNECTED"
    /\ Run(Push([Fresh EXCEPT !.screen_is_active = FALSE, !.owed = FALSE,
                               !.pausedCache = <<>>],
                 <<I("OPEN")>>))
    /\ UNCHANGED Env

\* run(), SESSION_ACTIVE branch
RunSessionActive ==
    /\ Idle /\ state = "SESSION_ACTIVE"
    /\ Run(Push(Fresh, <<I("INIT"), I("AFTER_INIT")>>))
    /\ UNCHANGED Env

\* run(), PAUSED branch; f is what the poll reads from the bus
RunPaused ==
    /\ Idle /\ state = "PAUSED"
    /\ \E f \in RxSet \cup {None} :
          Run(Push(Poll([Fresh EXCEPT !.screen_is_active = FALSE], f),
                   <<I("KA"), Instr("DRAIN", <<>>, 1, NoArg, "")>>))
    /\ UNCHANGED Env

\* run(), READY branch
RunReady ==
    /\ Idle /\ state = "READY"
    /\ \E f \in RxSet \cup {None} :
          Run(Push(Poll(Fresh, f),
                   <<I("KA"), I("RESTORE_IF"), I("DRAIN"), I("AUTOREL")>>))
    /\ UNCHANGED Env

\* the listening loop of detect_and_open_session
Detect ==
    /\ At("DETECT")
    /\ \E f \in RxSet \cup {TIMEOUT} : Run(DetectStep(Mach, f))
    /\ UNCHANGED Env

\* the wait loop of _recv_specific
RecvSpecific ==
    /\ At("SPEC")
    /\ \E f \in RxSpecific \cup {TIMEOUT, Head(todo).d} :
          Run(Received(f, "specific", _recv_specific(Mach, f)))
    /\ UNCHANGED Env

\* the wait loop of _recv_and_ack_data
RecvAndAckData ==
    /\ At("DATA")
    /\ \E f \in RxSet \cup {TIMEOUT} :
          Run(Received(f, "data", Heard(Mach, _recv_and_ack_data(Mach, f))))
    /\ UNCHANGED Env

\* close_session, on KeyboardInterrupt: the process ends
KeyboardInterrupt ==
    /\ ~halted
    /\ LET m1 == IF state # "DISCONNECTED"
                 THEN send_can(Mach, CAN_ID_SEND, KA_CLOSE, "close") ELSE Mach
           m2 == IF m1.exc # "" THEN m1 ELSE _set_state(m1, "DISCONNECTED")
       IN  Install(Finish([m2 EXCEPT !.todo = <<>>]))
    /\ halted' = TRUE
    /\ UNCHANGED <<now, busOk, ui_left>>

\* ---- environment
Quiet ==
    /\ wire' = <<>>
    /\ unacked' = FALSE
    /\ flog' = <<>>
    /\ ulog' = <<>>
    /\ pollrec' = <<>>
    /\ karec' = <<>>
    /\ rxrec' = <<>>
    /\ initrec' = <<>>
    /\ clrec' = <<>>
    /\ canfail' = FALSE
    /\ drainrec' = <<>>
    /\ execrec' = <<>>
    /\ rxctl' = <<>>
    /\ relrec' = <<>>
    /\ trans' = {}
    /\ droprec' = <<>>

Unobserved ==
    <<state, dis_mode, i_am_opener, send_seq_num, last_ka_sent, screen_is_active,
      command_cache, line_cache, todo, data, rv, lastData, pausedCache, owed,
      rplay, initrx, cur, lastDrawn, lastExec, framelog, openlog,
      ENABLE_AUTO_RELEASE,
      last_draw_time>>

\* The clock is read by InitDone and by the keep-alive only, and only the
\* difference to last_ka_sent counts: it is enough that time passes between
\* two iterations of a session that is READY or PAUSED.
Tick ==
    /\ Idle /\ state \in {"READY", "PAUSED"} /\ now < MaxNow
    /\ now' = now + 1
    /\ Quiet
    /\ UNCHANGED <<Unobserved, queue, qn, busOk, halted, ui_left>>

UISubmit ==
    /\ ~halted /\ ui_left > 0 /\ Len(queue) < MaxQueue
    /\ \E c \in CmdSet : queue' = Append(queue, c)
    /\ qn' = Append(qn, 0)
    /\ ui_left' = ui_left - 1
    /\ Quiet
    /\ UNCHANGED <<Unobserved, now, busOk, halted>>

BusFail ==
    /\ ~halted /\ busOk
    /\ busOk' = FALSE
    /\ Quiet
    /\ UNCHANGED <<Unobserved, queue, qn, now, halted, ui_left>>

BusRepair ==
    /\ ~halted /\ ~busOk
    /\ busOk' = TRUE
    /\ Quiet
    /\ UNCHANGED <<Unobserved, queue, qn, now, halted, ui_left>>

Constructed(enabled) ==
    /\ state = "DISCONNECTED"
    /\ dis_mode = "UNKNOWN"
    /\ i_am_opener = FALSE
    /\ send_seq_num = 0
    /\ last_ka_sent = 0
    /\ screen_is_active = FALSE
    /\ command_cache = <<>>
    /\ line_cache = <<>>
    /\ queue = <<>>
    /\ todo = <<>>
    /\ data = None
    /\ rv = FALSE
    /\ now = 0
    /\ busOk = TRUE
    /\ ui_left = MaxCmds
    /\ halted = FALSE
    /\ wire = <<>>
    /\ lastData = -1
    /\ unacked = FALSE
    /\ flog = <<>>
    /\ ulog = <<>>
    /\ pollrec = <<>>
    /\ karec = <<>>
    /\ pausedCache = <<>>
    /\ owed = FALSE
    /\ rplay = <<>>
    /\ rxrec = <<>>
    /\ initrx = <<>>
    /\ initrec = <<>>
    /\ clrec = <<>>
    /\ canfail = FALSE
    /\ qn = <<>>
    /\ cur = 0
    /\ lastDrawn = 0
    /\ lastExec = <<>>
    /\ execrec = <<>>
    /\ drainrec = <<>>
    /\ rxctl = <<>>
    /\ framelog = <<>>
    /\ relrec = <<>>
    /\ trans = {}
    /\ droprec = <<>>
    /\ openlog = <<>>
    /\ ENABLE_AUTO_RELEASE = enabled
    /\ last_draw_time = LongAgo

\* The service as it is shipped: the automatic release is switched off.
Init == Constructed(FALSE)

\* The driver with its UI: the clock stands still.
Next ==
    \/ RunDisconnected
    \/ RunSessionActive
    \/ RunPaused
    \/ RunReady
    \/ Detect
    \/ RecvSpecific
    \/ RecvAndAckData
    \/ KeyboardInterrupt
    \/ UISubmit
    \/ BusFail
    \/ BusRepair

Spec == Init /\ [][Next]_vars

\* The driver with its clock: the UI is silent.
NextTimed ==
    \/ RunDisconnected
    \/ RunSessionActive
    \/ RunPaused
    \/ RunReady
    \/ Detect
    \/ RecvSpecific
    \/ RecvAndAckData
    \/ KeyboardInterrupt
    \/ Tick
    \/ BusFail
    \/ BusRepair

SpecTimed == Init /\ [][NextTimed]_vars

\* ---- the driver with a cluster that answers as expected or not at all,
\* and a UI that numbers its commands and submits them in bursts
RxDataUI ==
    {DataEnd(0, pl) : pl \in {PL_LOG_3, PL_LOG_14_WHITE, payload_ok}}

RunPausedUI ==
    /\ Idle /\ state = "PAUSED"
    /\ \E f \in {None, DataEnd(0, CMD_REINIT_REQ)} :
          Run(Push(Poll([Fresh EXCEPT !.screen_is_active = FALSE], f),
                   <<I("KA"), Instr("DRAIN", <<>>, 1, NoArg, "")>>))
    /\ UNCHANGED Env

RunReadyUI ==
    /\ Idle /\ state = "READY"
    /\ \E f \in {None, DataEnd(0, STAT_BUSY_HALF)} :
          Run(Push(Poll(Fresh, f),
                   <<I("KA"), I("RESTORE_IF"), I("DRAIN"), I("AUTOREL")>>))
    /\ UNCHANGED Env

DetectUI ==
    /\ At("DETECT")
    /\ Run(DetectStep(Mach, TIMEOUT))
    /\ UNCHANGED Env

RecvSpecificUI ==
    /\ At("SPEC")
    /\ \E f \in {Head(todo).d, TIMEOUT} :
          Run(Received(f, "specific", _recv_specific(Mach, f)))
    /\ UNCHANGED Env

RecvAndAckDataUI ==
    /\ At("DATA")
    /\ \E f \in RxDataUI \cup {TIMEOUT} :
          Run(Received(f, "data", Heard(Mach, _recv_and_ack_data(Mach, f))))
    /\ UNCHANGED Env

\* The commands are numbered 1, 2, ... in the order of their submission.
UIBurst ==
    /\ ~halted /\ ui_left > 0 /\ Len(queue) < MaxBurst
    /\ \E c \in CmdSetUI : queue' = Append(queue, c)
    /\ qn' = Append(qn, MaxCmds - ui_left + 1)
    /\ ui_left' = ui_left - 1
    /\ Quiet
    /\ UNCHANGED <<Unobserved, now, busOk, halted>>

NextUI ==
    \/ RunDisconnected
    \/ RunSessionActive
    \/ RunPausedUI
    \/ RunReadyUI
    \/ DetectUI
    \/ RecvSpecificUI
    \/ RecvAndAckDataUI
    \/ UIBurst

SpecUI == Init /\ [][NextUI]_vars

\* ---- the driver with a cluster that also sends session-control frames and
\* stale ACKs while the driver reads the bus
COLOR_PRESENT == <<160, 15, 0>>                      \* A0 0F 00
PingWithTail == <<163, 0>>                           \* A3 00
RxCtl == {KA_CLOSE, KA_RED_PRESENT, COLOR_PRESENT, KA_KEEP_PING, PingWithTail}

\* the ACK of the frame before the one just sent: the peer still expects the
\* sequence number of the frame just sent
StaleAck(m) == <<PKT_TYPE_ACK + ((m.send_seq_num + 15) % 16)>>

RxDataCtl ==
    RxDataUI \cup {DataEnd(0, pl) : pl \in {PL_LOG_11_RED, PL_LOG_14_RED, PL_LOG_23}}

\* a busy status of the cluster, sent while the driver waits for an ACK
BusyFrames == {DataEnd(0, pl) : pl \in BusyStatus}

\* rxctl: operation op of machine m read the frame f and went on to r;
\* pongs are the A1 answers sent since the read, each with the number of
\* frames sent between the read and the answer
Control(f, op, m, r) ==
    IF f \in RxCtl \cup {StaleAck(m)} \cup BusyFrames
    THEN [r EXCEPT !.rxctl = [f |-> f, op |-> op, st0 |-> m.state,
                              mode |-> m.dis_mode, seq0 |-> m.send_seq_num,
                              pongs |-> r.pongs]]
    ELSE r

RunPausedCtl ==
    /\ Idle /\ state = "PAUSED"
    /\ \E f \in {None, DataEnd(0, CMD_REINIT_REQ)} \cup RxCtl :
          LET m == [Fresh EXCEPT !.screen_is_active = FALSE] IN
          Run(Push(Control(f, "poll", m, Poll(m, f)),
                   <<I("KA"), Instr("DRAIN", <<>>, 1, NoArg, "")>>))
    /\ UNCHANGED Env

RunReadyCtl ==
    /\ Idle /\ state = "READY"
    /\ \E f \in {None, DataEnd(0, STAT_BUSY_HALF)} \cup RxCtl :
          Run(Push(Control(f, "poll", Fresh, Poll(Fresh, f)),
                   <<I("KA"), I("RESTORE_IF"), I("DRAIN"), I("AUTOREL")>>))
    /\ UNCHANGED Env

DetectCtl ==
    /\ At("DETECT")
    /\ \E f \in {TIMEOUT, KA_RED_PRESENT} : Run(DetectStep(Mach, f))
    /\ UNCHANGED Env

RecvSpecificCtl ==
    /\ At("SPEC")
    /\ \E f \in {Head(todo).d, TIMEOUT, StaleAck(Mach)} \cup RxCtl
                  \cup (IF state = "READY" THEN BusyFrames ELSE {}) :
          Run(Control(f, "specific", Mach,
                      Received(f, "specific", _recv_specific(Mach, f))))
    /\ UNCHANGED Env

RecvAndAckDataCtl ==
    /\ At("DATA")
    /\ \E f \in RxDataCtl \cup {TIMEOUT} \cup RxCtl :
          Run(Control(f, "data", Mach,
                      Received(f, "data",
                               Heard(Mach, _recv_and_ack_data(Mach, f)))))
    /\ UNCHANGED Env

\* The UI sends one text at a time.
UIText ==
    /\ ~halted /\ ui_left > 0 /\ Len(queue) < MaxQueue
    /\ queue' = Append(queue, TextLong)
    /\ qn' = Append(qn, 0)
    /\ ui_left' = ui_left - 1
    /\ Quiet
    /\ UNCHANGED <<Unobserved, now, busOk, halted>>

NextCtl ==
    \/ RunDisconnected
    \/ RunSessionActive
    \/ RunPausedCtl
    \/ RunReadyCtl
    \/ DetectCtl
    \/ RecvSpecificCtl
    \/ RecvAndAckDataCtl
    \/ UIText

SpecCtl == Init /\ [][NextCtl]_vars

\* ---- the service with ENABLE_AUTO_RELEASE set, a cluster that sends
\* nothing of its own and answers every wait of _recv_specific, and a clock
\* that runs on while the session is idle
MaxIdle == 32

RunReadyQuiet ==
    /\ Idle /\ state = "READY"
    /\ Run(Push(Poll(Fresh, None),
                <<I("KA"), I("RESTORE_IF"), I("DRAIN"), I("AUTOREL")>>))
    /\ UNCHANGED Env

RecvSpecificAnswered ==
    /\ At("SPEC")
    /\ LET f == Head(todo).d IN
       Run(Received(f, "specific", _recv_specific(Mach, f)))
    /\ UNCHANGED Env

\* An iteration of run() takes far less than a second: the clock does not
\* run past a keep-alive that is due.
TickIdle ==
    /\ Idle /\ state \in {"READY", "PAUSED"} /\ now < MaxIdle
    /\ now - last_ka_sent <= KA_INTERVAL
    /\ now' = now + 1
    /\ Quiet
    /\ UNCHANGED <<Unobserved, queue, qn, busOk, halted, ui_left>>

InitRelease == Constructed(TRUE)

NextRelease ==
    \/ RunDisconnected
    \/ RunSessionActive
    \/ RunReadyQuiet
    \/ DetectUI
    \/ RecvSpecificAnswered
    \/ RecvAndAckDataUI
    \/ UIText
    \/ TickIdle

SpecRelease == InitRelease /\ [][NextRelease]_vars

\* ---- one call of send_ddp_frame on a READY engine, with a cluster that
\* acknowledges an end frame or stays silent
MaxPayload == 90
SeqAtCall == {0, 14}

Bytes(n) == [i \in 1..n |-> i]

\* framelog: the step read f (None: it read nothing) and went on to r
Logged(f, r) ==
    [r EXCEPT !.framelog =
        [@ EXCEPT !.ev = @ \o (IF f = None THEN <<>> ELSE <<[e |-> "rx", f |-> f]>>)
                           \o [i \in DOMAIN r.wire |->
                                  [e |-> "tx", f |-> r.wire[i].f]],
                  !.rv = IF r.todo # <<>> THEN "none"
                         ELSE IF r.rv THEN "True" ELSE "False"]]

InitFrame ==
    /\ state = "READY"
    /\ dis_mode \in {"WHITE", "RED"}
    /\ i_am_opener = TRUE
    /\ send_seq_num \in SeqAtCall
    /\ last_ka_sent = 0
    /\ screen_is_active = TRUE
    /\ command_cache = <<>>
    /\ line_cache = <<>>
    /\ queue = <<>>
    /\ todo = <<>>
    /\ data = None
    /\ rv = FALSE
    /\ now = 0
    /\ busOk = TRUE
    /\ ui_left = 0
    /\ halted = FALSE
    /\ wire = <<>>
    /\ lastData = -1
    /\ unacked = FALSE
    /\ flog = <<>>
    /\ ulog = <<>>
    /\ pollrec = <<>>
    /\ karec = <<>>
    /\ pausedCache = <<>>
    /\ owed = FALSE
    /\ rplay = <<>>
    /\ rxrec = <<>>
    /\ initrx = <<>>
    /\ initrec = <<>>
    /\ clrec = <<>>
    /\ canfail = FALSE
    /\ qn = <<>>
    /\ cur = 0
    /\ lastDrawn = 0
    /\ lastExec = <<>>
    /\ execrec = <<>>
    /\ drainrec = <<>>
    /\ rxctl = <<>>
    /\ relrec = <<>>
    /\ trans = {}
    /\ droprec = <<>>
    /\ openlog = <<>>
    /\ ENABLE_AUTO_RELEASE = FALSE
    /\ last_draw_time = LongAgo
    /\ framelog \in {[P |-> Bytes(n), ev |-> <<>>, rv |-> "none"] : n \in 1..MaxPayload}

\* send_ddp_frame(P) is called
CallSendFrame ==
    /\ Idle /\ framelog.rv = "none" /\ framelog.ev = <<>>
    /\ Install(Finish(Logged(None, Exec(Push(Mach, <<IFrame(framelog.P)>>)))))
    /\ UNCHANGED Env

\* the ACK wait of an end frame is given the ACK or nothing
AckWait ==
    /\ At("SPEC")
    /\ \E f \in {Head(todo).d, TIMEOUT} :
          Install(Finish(Logged(f, Exec(_recv_specific(Mach, f)))))
    /\ UNCHANGED Env

NextFrame ==
    \/ CallSendFrame
    \/ AckWait

SpecFrame == InitFrame /\ [][NextFrame]_vars

\* ------------------------------------------------------------ properties
DataFramesSent == {i \in DOMAIN wire : wire[i].id = CAN_ID_SEND /\ IsDataFrame(wire[i].f)}

\* C1: within a session every data frame the driver sends on 0x6C0, whichever
\* operation sends it, carries the sequence nibble that follows (mod 16) the
\* nibble of the data frame sent before it: no gap, no repeat.
C1_SeqContinuity ==
    \A i \in DataFramesSent :
        wire[i].prev # -1 => SeqOf(wire[i].f) = (wire[i].prev + 1) % 16

\* a data frame numbered 0 follows the one numbered 15 in the same session
C1_Witness ==
    \E i \in DataFramesSent : wire[i].prev = 15 /\ SeqOf(wire[i].f) = 0

\* C2: when the ACK wait of an end frame ends without the ACK, the engine
\* becomes DISCONNECTED.
C2_UnackedEndFrameCloses == unacked => state = "DISCONNECTED"

\* C3: a draw frame is on the wire only if the engine was READY when it was
\* sent; a call of send_ddp_frame in any other state returns False at once,
\* sends nothing and leaves send_seq_num as it was.
C3_DrawOnlyWhenReady ==
    /\ \A i \in DOMAIN wire : wire[i].t = "draw" => wire[i].st = "READY"
    /\ \A i \in DOMAIN flog :
          /\ flog[i].returned /\ ~flog[i].rv
          /\ Len(wire) = flog[i].n
          /\ send_seq_num = flog[i].seq

\* send_ddp_frame was called while the engine was PAUSED
C3_Witness == \E i \in DOMAIN flog : flog[i].st = "PAUSED"

\* C4: screen_is_active implies READY or PAUSED, and DISCONNECTED implies
\* not screen_is_active, in every state.
C4_ActiveOnlyInSession ==
    /\ screen_is_active => state \in {"READY", "PAUSED"}
    /\ state = "DISCONNECTED" => ~screen_is_active

\* C5: after PAUSED -> READY with a non-empty command_cache the screen is
\* claimed for the replay of the cache before anything else is drawn: while
\* the replay is owed, the screen is active only with restore_screen running.
C5_ReplayFollowsResume ==
    (owed /\ state = "READY" /\ screen_is_active) => rplay # <<>>

\* the texts a cache holds, as they appear in a text frame: x, y, characters
Content(cache) ==
    {<<cache[i].x, cache[i].y, _translate_audscii(cache[i].text)>> :
        i \in {j \in DOMAIN cache : cache[j].command = "draw_text"}}

\* the texts of the text frames (opcode 0x57) among the frames sent
Replayed(sent) ==
    {<<sent[i][4], sent[i][5], SubSeq(sent[i], 6, Len(sent[i]))>> :
        i \in {j \in DOMAIN sent : sent[j][1] = 87}}

ReplayDone ==
    rplay # <<>> /\ rplay.done /\ rplay.afterResume /\ state = "READY"

\* C6 (as the code has it): the replay after PAUSED -> READY renders the
\* command_cache as it is when the replay starts, that is the cache at the
\* moment of PAUSED as changed by the UI commands run since.
C6_ReplayIsCacheAtReplay ==
    ReplayDone => Replayed(rplay.sent) = Content(rplay.src)

\* a replay of a cache that UI commands changed during the pause
C6_Witness == ReplayDone /\ rplay.src # <<>> /\ rplay.src # rplay.paused

\* C6 (as the specification has it): the replay after PAUSED -> READY renders
\* the command_cache of the moment the engine entered PAUSED.
C6_ReplayIsCacheAtPause ==
    ReplayDone => Replayed(rplay.sent) = Content(rplay.paused)

\* C7: a UI command taken from the queue while the engine is PAUSED is run
\* as a dry run: it is not discarded, puts no frame on the bus and leaves
\* the engine and screen_is_active as they were.
C7_PausedCommandsDryRun ==
    \A i \in DOMAIN ulog :
        /\ ulog[i].how # "dropped"
        /\ Len(wire) = ulog[i].n
        /\ ulog[i].eng = <<state, dis_mode, i_am_opener, send_seq_num,
                           last_ka_sent, screen_is_active>>

BusySpecified ==
    {<<83, 132>>, <<83, 4>>, <<83, 136>>, <<83, 8>>,
     <<123, 132>>, <<123, 4>>, <<123, 136>>, <<123, 8>>}

\* C8: a busy status read while READY makes the engine PAUSED with one
\* urgent A3; one read while PAUSED changes nothing and sends no urgent A3.
C8_BusyPauses ==
    (pollrec # <<>> /\ busOk /\ pollrec.payload \in BusySpecified) =>
        /\ pollrec.st0 = "READY" => pollrec.st1 = "PAUSED" /\ pollrec.urgent = 1
        /\ pollrec.st0 = "PAUSED" => pollrec.st1 = "PAUSED" /\ pollrec.urgent = 0

ReinitConfSent ==
    {i \in DOMAIN wire : /\ wire[i].id = CAN_ID_SEND
                         /\ TypeOf(wire[i].f) = PKT_TYPE_DATA_END
                         /\ Tail(wire[i].f) = <<47>>}

\* C9: a free status (53 05, 53 0A) read while PAUSED leaves the engine
\* PAUSED; the engine goes from PAUSED to READY only on the payload 2E, and
\* then sends exactly one end frame carrying 2F.
C9_ResumeOnReinitOnly ==
    (pollrec # <<>> /\ pollrec.st0 = "PAUSED") =>
        /\ pollrec.payload \in {<<83, 5>>, <<83, 10>>} => pollrec.st1 = "PAUSED"
        /\ pollrec.st1 = "READY" =>
              pollrec.payload = <<46>> /\ Cardinality(ReinitConfSent) = 1

\* the engine went from PAUSED to READY
C9_Witness ==
    pollrec # <<>> /\ pollrec.st0 = "PAUSED" /\ pollrec.st1 = "READY"

\* C10: the keep-alive step sends one A3 and sets last_ka_sent to the time
\* exactly when the engine is READY or PAUSED, it is the opener and more
\* than 2 s have passed since last_ka_sent (and the adapter takes the
\* frame); otherwise it sends nothing and leaves last_ka_sent as it was.
C10_KeepAliveExactlyWhenDue ==
    karec # <<>> =>
        IF /\ karec.st \in {"READY", "PAUSED"} /\ karec.opener
           /\ karec.at - karec.stamp0 > 2 /\ karec.bus
        THEN karec.sent = 1 /\ karec.stamp1 = karec.at
        ELSE karec.sent = 0 /\ karec.stamp1 = karec.stamp0

\* a keep-alive was sent while the engine was PAUSED
C10_Witness == karec # <<>> /\ karec.st = "PAUSED" /\ karec.sent = 1

\* C15: every 0x0_ or 0x1_ data frame read from the bus, in whatever
\* operation (poll, wait for data, wait for an ACK or a keep-alive reply), is
\* answered with exactly one ACK 0xB0 + ((seq + 1) mod 16) (the adapter
\* taking the frame): no read leaves a data frame without just that ACK.
C15_DataFrameAcked == rxrec = <<>>

\* C16: whenever the engine is DISCONNECTED the session context is reset:
\* dis_mode UNKNOWN, i_am_opener false, send_seq_num 0.
C16_DisconnectedIsReset ==
    state = "DISCONNECTED" =>
        dis_mode = "UNKNOWN" /\ ~i_am_opener /\ send_seq_num = 0

\* the engine became DISCONNECTED on a missing ACK, after frames were sent
C16_Witness == state = "DISCONNECTED" /\ unacked

\* the payloads a successful handshake is given, in order; the answer to
\* step 1 may come twice (PL_LOG_5)
ExpectedHeard(mode) ==
    LET paths == IF mode = "RED"
                 THEN {<<PL_LOG_11_RED, PL_LOG_14_RED, PL_LOG_23>>}
                 ELSE {<<PL_LOG_14_WHITE>>,
                       <<PL_LOG_11_WHITE, PL_LOG_14_WHITE, PL_LOG_11_WHITE,
                         PL_LOG_14_WHITE, PL_LOG_23, PL_LOG_23>>}
    IN  {<<PL_LOG_3>> \o p : p \in paths}
        \cup {<<PL_LOG_3, PL_LOG_5>> \o p : p \in paths}

\* C17: perform_initialization ends with the engine READY or DISCONNECTED;
\* READY only for the opener, after every payload of the handshake arrived
\* in order and the final A3 was answered by the A1 of the session; a frame
\* of the handshake left without its ACK ends it DISCONNECTED.
C17_InitEndsReadyOrClosed ==
    initrec # <<>> =>
        /\ initrec.st \in {"READY", "DISCONNECTED"}
        /\ unacked => initrec.st = "DISCONNECTED"
        /\ initrec.st = "READY" =>
              /\ initrec.opener
              /\ initrec.mode \in {"WHITE", "RED"}
              /\ initrec.heard \in ExpectedHeard(initrec.mode)
              /\ initrec.reply = IF initrec.mode = "RED" THEN KA_RED_ACCEPT
                                 ELSE KA_WHITE_ACCEPT

\* the long handshake of a white cluster succeeded
C17_Witness ==
    initrec # <<>> /\ initrec.st = "READY" /\ Len(initrec.heard) >= 7

\* C18: a screen claim that meets an unexpected answer, or none, leaves the
\* engine DISCONNECTED and screen_is_active false.
C18_BadClaimCloses ==
    clrec # <<>> => clrec.st = "DISCONNECTED" /\ ~clrec.active

\* C19: when the adapter refuses a frame, in whatever operation, the engine
\* becomes DISCONNECTED.
C19_SendFailureCloses ==
    (canfail /\ ~halted) => state = "DISCONNECTED"

\* C11: in an iteration of the READY branch the bus is polled before the
\* batch of UI commands and the batch is what waited when the drain loop
\* began: the loop takes no more commands than that before the bus is polled
\* again, however fast the UI submits.
C11_BatchIsWhatWaited == drainrec = <<>>

\* C12: the commands the drain loop of the READY branch executes are
\* executed in the order of their submission, and the draw frames they put
\* on the wire follow that order: no draw frame belongs to a command
\* submitted before the command of the draw frame sent before it.
C12_FramesInSubmissionOrder ==
    /\ \A i \in DOMAIN wire :
          (wire[i].t = "draw" /\ wire[i].c > 0) => wire[i].c >= wire[i].prevc
    /\ \A i \in DOMAIN execrec :
          execrec[i].prev # <<>> => execrec[i].this.n > execrec[i].prev.n

C12_Witness ==
    \E i \in DOMAIN wire :
        wire[i].t = "draw" /\ wire[i].c = 2 /\ wire[i].prevc = 1

\* A call of _execute_command that drew: not a dry run, the engine READY
\* when it began and when it returned.
RanReady(e) == e.done /\ ~e.dry /\ e.st0 = "READY" /\ e.st1 = "READY"

\* The call e.this came directly after a call for the same command, both
\* having drawn with the engine READY.
TwiceInARow(e) ==
    /\ RanReady(e.this)
    /\ e.prev # <<>>
    /\ RanReady(e.prev)
    /\ e.prev.c = e.this.c

TextPayloads(sent) ==
    Cardinality({i \in DOMAIN sent : sent[i][1] = 87 + opcode_offset})

\* C13: when the same draw_text is executed twice in a row while READY, the
\* second call hands nothing to send_ddp_frame, and the first put exactly
\* one text payload (opcode 0x57) on the wire, unless line_cache held its
\* key already and it was suppressed itself.
C13_SameTextOnce ==
    \A i \in DOMAIN execrec :
        LET e == execrec[i] IN
        (TwiceInARow(e) /\ e.this.c.command = "draw_text")
            => /\ e.this.sent = <<>>
               /\ TextPayloads(e.prev.sent) = IF e.prev.hit THEN 0 ELSE 1

C13_Witness ==
    \E i \in DOMAIN execrec :
        /\ TwiceInARow(execrec[i])
        /\ execrec[i].this.c.command = "draw_text"
        /\ TextPayloads(execrec[i].prev.sent) = 1

\* The two payloads of clear_screen on a mono cluster.
ClearPayloads ==
    <<<<82, 5, 2, 0, 27, 64, 48>>, <<82, 5, 0, 0, 27, 64, 48>>>>

\* C14: when clear is executed twice in a row while READY, each of the two
\* calls puts the clear payload sequence on the wire, and command_cache,
\* line_cache and screen_is_active are after the second call what they were
\* after the first.
C14_ClearTwice ==
    \A i \in DOMAIN execrec :
        LET e == execrec[i] IN
        (TwiceInARow(e) /\ e.this.c.command = "clear")
            => /\ e.prev.sent = ClearPayloads
               /\ e.this.sent = ClearPayloads
               /\ e.this.after = e.prev.after

C14_Witness ==
    \E i \in DOMAIN execrec :
        /\ TwiceInARow(execrec[i])
        /\ execrec[i].this.c.command = "clear"
        /\ execrec[i].this.after = <<<<>>, <<>>, TRUE>>

UnknownIcon(e) ==
    e.c.command = "draw_bitmap" /\ e.c.icon_name \notin DOMAIN BITMAPS

\* C20: the execution of a draw_bitmap whose icon_name is not in BITMAPS
\* hands nothing to send_ddp_frame and leaves the engine state, send_seq_num,
\* line_cache and screen_is_active as they were; a draw_text executed
\* directly after it while READY is drawn as it would be without it.
C20_UnknownIconDropped ==
    \A i \in DOMAIN execrec :
        LET e == execrec[i] IN
        /\ UnknownIcon(e.this)
              => /\ e.this.sent = <<>>
                 /\ e.this.st1 = e.this.st0
                 /\ e.seq1 = e.seq0
                 /\ e.this.after[2] = e.lc0
                 /\ e.this.after[3] = e.act0
        /\ (e.prev # <<>> /\ UnknownIcon(e.prev) /\ RanReady(e.this)
             /\ e.this.c.command = "draw_text")
              => TextPayloads(e.this.sent) = IF e.this.hit THEN 0 ELSE 1

C20_Witness ==
    \E i \in DOMAIN execrec :
        /\ execrec[i].prev # <<>>
        /\ UnknownIcon(execrec[i].prev)
        /\ ~execrec[i].prev.dry
        /\ RanReady(execrec[i].this)
        /\ TextPayloads(execrec[i].this.sent) = 1

\* C21: the caches follow what was transmitted: a draw_text whose frames
\* were refused or failed to be sent (the engine is not READY when the call
\* returns) leaves line_cache as it was before the call.
C21_FailedDrawLeavesCache ==
    \A i \in DOMAIN execrec :
        LET e == execrec[i] IN
        (e.this.c.command = "draw_text" /\ ~e.this.dry /\ e.this.st1 # "READY")
            => e.this.after[2] = e.lc0


\* C23: when the ACK of an end frame is missing, the driver does not give up at
\* once: it emits the A3 ping of the breathing loop before the send fails.
C23_MissingAckBreathes ==
    unacked => \E i \in DOMAIN wire : wire[i].f = KA_KEEP_PING

\* C24: an ACK wait that was given a stale ACK (the peer still expects the
\* frame just sent) and then runs out does not end the session: the driver
\* puts frames on the bus again and the engine is not DISCONNECTED.
C24_StaleAckRealigns ==
    [][(/\ rxctl # <<>>
        /\ rxctl.op = "specific"
        /\ rxctl.f = <<PKT_TYPE_ACK + ((rxctl.seq0 + 15) % 16)>>
        /\ unacked'
        /\ rxctl' = <<>>)
          => (state' # "DISCONNECTED" /\ wire' # <<>>)]_vars

\* C25: an A8 read by a poll, an ACK wait, a data wait or a handshake wait
\* leaves the engine DISCONNECTED, and the operation that read it puts no
\* data frame on the bus afterwards: no data frame is sent by an engine that
\* is DISCONNECTED.
C25_CloseEndsSession ==
    /\ (rxctl # <<>> /\ rxctl.f = KA_CLOSE)
          => (state = "DISCONNECTED" /\ DataFramesSent = {})
    /\ \A i \in DataFramesSent : wire[i].st # "DISCONNECTED"

\* an A8 arrives while a draw frame sent by the READY engine waits for its ACK
C25_Witness ==
    /\ rxctl # <<>> /\ rxctl.f = KA_CLOSE
    /\ rxctl.op = "specific" /\ rxctl.st0 = "READY"
    /\ unacked

\* C26: a Red broadcast (A0 07 00) or a colour broadcast (A0 0F 00) read
\* while the engine is READY ends the session: the engine is DISCONNECTED.
C26_BroadcastEndsSession ==
    (rxctl # <<>> /\ rxctl.f \in {KA_RED_PRESENT, COLOR_PRESENT}
                  /\ rxctl.st0 = "READY")
        => state = "DISCONNECTED"

\* C27: an A3 ping, bare or with trailing bytes, read while a session is open
\* is answered with exactly one A1 of the form of the session (A1 0F in a Red
\* session, A1 0F 8A FF 4A FF otherwise), and the answer is the first frame
\* the driver sends after the read.
C27_PingAnswered ==
    (rxctl # <<>> /\ rxctl.f[1] = KA_KEEP_PING[1] /\ rxctl.st0 # "DISCONNECTED")
        => /\ Len(rxctl.pongs) = 1
           /\ rxctl.pongs[1].id = CAN_ID_SEND
           /\ rxctl.pongs[1].f = IF rxctl.mode = "RED" THEN KA_RED_ACCEPT
                                 ELSE KA_WHITE_ACCEPT
           /\ rxctl.pongs[1].after = 0

\* a ping with a trailing byte is read by the poll of a READY Red session, and
\* the iteration goes on to send a frame of its own
C27_Witness ==
    /\ rxctl # <<>> /\ rxctl.f = PingWithTail
    /\ rxctl.op = "poll" /\ rxctl.st0 = "READY" /\ rxctl.mode = "RED"
    /\ wire # <<>>

\* ---- one call of send_ddp_frame
IsTx(e) == e.e = "tx"
\* the data frames of the call, in wire order
FramesOf(ev) == SelectSeq(ev, IsTx)
IsBody(e) == TypeOf(e.f) = PKT_TYPE_DATA_BODY
IsEnd(e) == TypeOf(e.f) = PKT_TYPE_DATA_END

\* the payload bytes of the frames fr, concatenated
RECURSIVE Carried(_)
Carried(fr) == IF fr = <<>> THEN <<>> ELSE Tail(Head(fr).f) \o Carried(Tail(fr))

EndsUpTo(fr, j) == Cardinality({i \in 1..j : IsEnd(fr[i])})
Least(a, b) == IF a < b THEN a ELSE b

\* C28: send_ddp_frame cuts a non-empty payload P into blocks of at most 42
\* bytes; a block goes out as body frames (0x2x) of exactly 7 bytes followed
\* by one end frame (0x1x) with the remaining 1..7 bytes, each end frame
\* closing the next 42 bytes of P (or what is left); the payloads of the
\* frames in wire order are a prefix of P, and P itself when the call
\* returns True.
C28_FrameSplit ==
    framelog # <<>> =>
        LET fr == FramesOf(framelog.ev)
            P == framelog.P
        IN  /\ \A i \in DOMAIN fr :
                  \/ IsBody(fr[i]) /\ Len(fr[i].f) = 8 /\ i < Len(fr)
                  \/ IsEnd(fr[i]) /\ Len(fr[i].f) \in 2..8
            /\ \A j \in DOMAIN fr :
                  IsEnd(fr[j]) =>
                      Len(Carried(SubSeq(fr, 1, j)))
                          = Least(MAX_BYTES_PER_BLOCK * EndsUpTo(fr, j), Len(P))
            /\ Carried(fr) = SubSeq(P, 1, Len(Carried(fr)))
            /\ framelog.rv = "True" => Carried(fr) = P

\* a payload of three blocks was sent and send_ddp_frame returned True
C28_Witness ==
    /\ framelog # <<>> /\ framelog.rv = "True"
    /\ Len(framelog.P) = MaxPayload
    /\ EndsUpTo(FramesOf(framelog.ev), Len(FramesOf(framelog.ev))) = 3

Kinds(fr) == [i \in DOMAIN fr |-> IF IsBody(fr[i]) THEN "body" ELSE "end"]

\* C29: a payload of 60 bytes goes out as two blocks: five body frames and an
\* end frame that carry 42 bytes, then two body frames and an end frame that
\* carry 18 bytes.
C29_SixtyBytes ==
    (framelog # <<>> /\ Len(framelog.P) = 60 /\ framelog.rv = "True") =>
        LET fr == FramesOf(framelog.ev) IN
        /\ Kinds(fr) = <<"body", "body", "body", "body", "body", "end",
                         "body", "body", "end">>
        /\ Len(Carried(SubSeq(fr, 1, 6))) = 42
        /\ Len(Carried(SubSeq(fr, 7, 9))) = 18

\* the payload of 60 bytes was sent and acknowledged
C29_Witness ==
    framelog # <<>> /\ Len(framelog.P) = 60 /\ framelog.rv = "True"

\* C29 as stated: the first block is six body frames and an end frame, the
\* second two body frames and an end frame.
C29_AsStated ==
    (framelog # <<>> /\ Len(framelog.P) = 60 /\ framelog.rv = "True") =>
        Kinds(FramesOf(framelog.ev))
            = <<"body", "body", "body", "body", "body", "body", "end",
                "body", "body", "end">>

\* C30: within one payload a body frame is followed by the next frame without
\* a read of the bus; after an end frame nothing is sent before its wait was
\* given an answer; the answer is the ACK of that end frame, or none, and
\* then no further frame of the payload is sent, send_ddp_frame returns False
\* and the engine is DISCONNECTED.
C30_BlocksInTurn ==
    framelog # <<>> =>
        LET ev == framelog.ev IN
        \A i \in DOMAIN ev :
            IF IsTx(ev[i])
            THEN IF IsBody(ev[i])
                 THEN i < Len(ev) /\ IsTx(ev[i + 1])
                 ELSE i < Len(ev) => ~IsTx(ev[i + 1])
            ELSE /\ i > 1 /\ IsTx(ev[i - 1]) /\ IsEnd(ev[i - 1])
                 /\ IF ev[i].f = TIMEOUT
                    THEN /\ i = Len(ev)
                         /\ framelog.rv = "False"
                         /\ state = "DISCONNECTED"
                    ELSE ev[i].f = <<PKT_TYPE_ACK + ((SeqOf(ev[i - 1].f) + 1) % 16)>>

\* the first block of a payload of three was acknowledged, the second was not
C30_Witness ==
    /\ framelog # <<>> /\ Len(framelog.P) > 2 * MAX_BYTES_PER_BLOCK
    /\ framelog.rv = "False"
    /\ EndsUpTo(FramesOf(framelog.ev), Len(FramesOf(framelog.ev))) = 2

\* C22: with the automatic release switched on, the screen is given back
\* after more than 30 s without a draw, the engine staying READY with
\* screen_is_active cleared; after that no claim is sent while no UI command
\* has arrived.
C22_ReleasedUntilCommand ==
    /\ [](relrec # <<>> => /\ relrec.idle > INACTIVITY_TIMEOUT
                           /\ state = "READY" /\ ~screen_is_active)
    /\ [][(relrec # <<>> /\ queue = <<>> /\ queue' = <<>>)
             => \A i \in DOMAIN wire' : wire'[i].t # "claim"]_vars

Tx(f) == <<"tx", f>>
Rx(f) == <<"rx", f>>
\* the exchange of a complete Red open
RedExchange ==
    <<Tx(KA_RED_OPEN), Tx(KA_KEEP_PING), Rx(KA_RED_ACCEPT)>>
    \o Flatten([i \in 1..4 |-> <<Tx(KA_KEEP_PING), Rx(KA_RED_ACCEPT)>>])

IsPrefix(s, t) == Len(s) <= Len(t) /\ s = SubSeq(t, 1, Len(s))

\* C31: the Red open emits A1 0F and then A3; a Red session is SESSION_ACTIVE
\* with the driver as opener only after A1 0F was received five times, the
\* last four each after a further A3; as long as a reply is missing the
\* engine is DISCONNECTED with mode UNKNOWN.
C31_RedOpen ==
    /\ (state = "SESSION_ACTIVE" /\ dis_mode = "RED")
          => (i_am_opener /\ openlog = RedExchange)
    /\ (openlog # <<>> /\ openlog[1] = Tx(KA_RED_OPEN))
          => /\ IsPrefix(openlog, RedExchange)
             /\ Len(openlog) >= 2
             /\ openlog # RedExchange
                   => (state = "DISCONNECTED" /\ dis_mode = "UNKNOWN")

\* the Red open has succeeded
C31_Witness ==
    state = "SESSION_ACTIVE" /\ dis_mode = "RED" /\ openlog = RedExchange

\* C32: after the claim payload was sent, screen_is_active is set only when
\* the answer to the claim is 53 85, at once or after 53 84, 53 05, 2E, our 2F
\* and the second claim: a claim that ends on any other answer, or on none,
\* leaves screen_is_active false.
C32_ActiveOnlyAfterOk == clrec # <<>> => ~clrec.active

\* ------------------------------------------------- clearing before a text
IsInverted(c) == (c.flags \div 128) % 2 = 1

\* The clear of the pixels the text of c leaves behind of a text of old_len
\* characters, and the clear of the whole line of c.
TrailClear(c, old_len) ==
    <<82, 5, 2, c.x + Len(c.text) * CHAR_WIDTH_MONO, c.y + ABS_Y_OFFSET,
      (old_len - Len(c.text)) * CHAR_WIDTH_MONO, LINE_HEIGHT_MONO>>
LineClear(c) ==
    <<82, 5, 2, 0, c.y + ABS_Y_OFFSET, LINE_WIDTH_MONO, LINE_HEIGHT_MONO>>
LineFill(c) ==
    <<82, 5, 3, c.x, c.y + ABS_Y_OFFSET, LINE_WIDTH_MONO, LINE_HEIGHT_MONO>>

\* The payload p went out before the text frame of the call.
BeforeText(sent, p) ==
    \E i, j \in DOMAIN sent :
        i < j /\ sent[i] = p /\ sent[j][1] = 87 + opcode_offset

\* A draw_text that drew its text frame on a line line_cache knew.
DrewOver(e) ==
    /\ RanReady(e.this)
    /\ e.this.c.command = "draw_text"
    /\ TextPayloads(e.this.sent) = 1
    /\ e.this.c.y \in DOMAIN e.lc0

\* C33: on the mono display, a non-inverted draw_text that is shorter than
\* the text line_cache holds for its row sends the clear rectangle of the
\* trailing area before its text frame, and one that follows an inverted
\* text on the row sends the clear rectangle of the full line before its
\* text frame; an inverted draw_text sends the fill of its line before its
\* text frame instead, and no clear rectangle.
C33_ClearBeforeText ==
    \A i \in DOMAIN execrec :
        LET e == execrec[i]
            c == e.this.c
        IN  DrewOver(e) =>
              IF IsInverted(c)
              THEN /\ BeforeText(e.this.sent, LineFill(c))
                   /\ \A k \in DOMAIN e.this.sent : e.this.sent[k][3] # 2
              ELSE /\ Len(c.text) < e.lc0[c.y].len
                        => BeforeText(e.this.sent,
                                      TrailClear(c, e.lc0[c.y].len))
                   /\ e.lc0[c.y].inv => BeforeText(e.this.sent, LineClear(c))

C33_Witness ==
    \E i \in DOMAIN execrec :
        LET e == execrec[i] IN
        /\ DrewOver(e)
        /\ ~IsInverted(e.this.c)
        /\ Len(e.this.c.text) < e.lc0[e.this.c.y].len
        /\ BeforeText(e.this.sent, TrailClear(e.this.c, e.lc0[e.this.c.y].len))

\* C33 as stated: every draw_text shorter than the cached text of its row
\* sends the clear rectangle of the trailing area before its text frame.
C33_AsStated ==
    \A i \in DOMAIN execrec :
        LET e == execrec[i]
            c == e.this.c
        IN  (DrewOver(e) /\ Len(c.text) < e.lc0[c.y].len)
                => BeforeText(e.this.sent, TrailClear(c, e.lc0[c.y].len))

\* ------------------------------------------------------ changes of state
\* The changes of state of the engine.
Edges ==
    {<<"DISCONNECTED", "SESSION_ACTIVE">>, <<"SESSION_ACTIVE", "INITIALIZING">>,
     <<"INITIALIZING", "READY">>, <<"READY", "PAUSED">>, <<"PAUSED", "READY">>}
        \cup {<<s, "DISCONNECTED">> :
                s \in {"SESSION_ACTIVE", "INITIALIZING", "READY", "PAUSED"}}

\* C34: every change of state _set_state makes goes DISCONNECTED ->
\* SESSION_ACTIVE, SESSION_ACTIVE -> INITIALIZING, INITIALIZING -> READY,
\* READY -> PAUSED, PAUSED -> READY or from any state to DISCONNECTED; so
\* PAUSED is entered from READY only and READY from INITIALIZING or PAUSED
\* only.
C34_Edges == trans \subseteq Edges

C34_Witness ==
    /\ <<"READY", "PAUSED">> \in trans
    /\ state = "PAUSED"

\* ---- the service with a cluster that always opens the session first: the
\* listening loop of detect_and_open_session hears A0 0F 8A FF 4A FF
DetectPassive ==
    /\ At("DETECT")
    /\ Run(DetectStep(Mach, KA_WHITE_OPEN))
    /\ UNCHANGED Env

NextPassive ==
    \/ RunDisconnected
    \/ RunSessionActive
    \/ DetectPassive
    \/ UIBurst

\* run() loops for ever and the cluster goes on opening: the thread of the
\* service always takes its next step.
ThreadPassive == RunDisconnected \/ RunSessionActive \/ DetectPassive

\* ThreadPassive can take a step: ENABLED <<ThreadPassive>>_vars
ThreadReady ==
    \/ Idle /\ state \in {"DISCONNECTED", "SESSION_ACTIVE"}
    \/ At("DETECT")

\* Weak fairness of ThreadPassive, WF_vars(ThreadPassive), written out.
SpecPassive ==
    /\ Init
    /\ [][NextPassive]_vars
    /\ ([]<>(~ThreadReady) \/ []<><<ThreadPassive>>_vars)

\* perform_initialization gave the session up at once
GaveUp ==
    /\ initrec # <<>>
    /\ trans = {<<"SESSION_ACTIVE", "INITIALIZING">>,
                <<"INITIALIZING", "DISCONNECTED">>}
    /\ state = "DISCONNECTED"

\* C35: a session the cluster opened (A0 0F 8A FF 4A FF, answered A1, opener
\* false) never reaches READY: the driver sends no data frame, its
\* initialization goes to INITIALIZING and at once to DISCONNECTED, and with
\* a cluster that always opens first the engine goes round DISCONNECTED,
\* SESSION_ACTIVE, INITIALIZING, DISCONNECTED for ever.
C35_PassiveCycle ==
    /\ [](state \in {"DISCONNECTED", "SESSION_ACTIVE"})
    /\ [](state = "SESSION_ACTIVE" => ~i_am_opener /\ dis_mode = "WHITE")
    /\ [](DataFramesSent = {})
    /\ [](initrec # <<>> => GaveUp)
    /\ []<>(state = "SESSION_ACTIVE")
    /\ []<>GaveUp

C35_Witness == GaveUp /\ ~i_am_opener /\ wire = <<>>

\* ------------------------------------------------ stray frames in an open
\* The wait of an open of the driver (engine DISCONNECTED) read a frame that
\* is neither the A1 it waits for nor A8.
StrayInOpen ==
    /\ rxctl # <<>>
    /\ rxctl.op = "specific"
    /\ rxctl.st0 = "DISCONNECTED"
    /\ rxctl.f # KA_CLOSE

\* C36: a frame that is not the awaited A1, read by the wait of an active
\* White open or of a Red open, does not end the wait: the driver goes on
\* waiting for the A1, so that an A1 arriving in time completes the open.
C36_StrayKeepsWaiting ==
    StrayInOpen
        => /\ At("SPEC")
           /\ Head(todo).d \in {KA_WHITE_ACCEPT, KA_RED_ACCEPT}

\* ------------------------------------------- a busy status in an ACK wait
\* A wait of _recv_specific on a READY engine read a busy status.
BusyInAckWait ==
    /\ rxctl # <<>>
    /\ rxctl.op = "specific"
    /\ rxctl.st0 = "READY"
    /\ rxctl.f \in BusyFrames

\* C37: a busy status (53 84, 53 04, 53 88, 53 08) that the driver reads
\* while it is READY and waits for the ACK of an end frame is not lost: the
\* engine goes to PAUSED because of it.
C37_BusyNotLost == BusyInAckWait => state = "PAUSED"

\* ------------------------------------------------ commands that are cached
DrawCommands == {"draw_text", "draw_bitmap", "draw_rect", "draw_line"}

Cached(cc, cmd) == \E i \in DOMAIN cc : cc[i] = cmd

\* C38: a draw command taken from the UI queue while the engine is READY or
\* PAUSED is in command_cache afterwards, also when the claim of the screen
\* made for it failed.
C38_TakenIsCached ==
    \A i \in DOMAIN droprec :
        (droprec[i].cmd.command \in DrawCommands
            /\ droprec[i].st \in {"READY", "PAUSED"})
            => Cached(command_cache, droprec[i].cmd)

\* ---------------------------------------------- the cache across a restore
\* C39: restore_screen leaves command_cache as it found it: the cache is
\* the one it started with while it runs and when it returns, whether the
\* frames of the replay were sent or not.
C39_RestoreKeepsCache ==
    rplay # <<>> =>
        IF rplay.done THEN rplay.after = rplay.src
        ELSE command_cache = rplay.src

\* a replay that sent its frames and returned
C39_Witness ==
    /\ rplay # <<>> /\ rplay.done
    /\ rplay.src # <<>> /\ rplay.after = rplay.src
    /\ TextPayloads(rplay.sent) > 0
    /\ state = "READY"

\* ------------------------------------------------------- 2E while READY
ReinitSent == {i \in DOMAIN wire : wire[i].t = "reinit"}

\* C40: the driver sends 2F only in answer to a 2E it reads while PAUSED; a
\* 2E read while READY is answered by no 2F and leaves send_seq_num and the
\* state of the engine as they were.
C40_ReinitOnlyWhenPaused ==
    /\ ReinitSent # {}
          => (pollrec # <<>> /\ pollrec.payload = CMD_REINIT_REQ
                             /\ pollrec.st0 = "PAUSED")
    /\ (pollrec # <<>> /\ pollrec.payload = CMD_REINIT_REQ
                       /\ pollrec.st0 = "READY")
          => ReinitSent = {}

====
